---- MODULE Spec2Model ----
(***************************************************************************)
(* Tiled fixed-point convolution engine (conv_engine, V3: IC-outer /       *)
(* OC-inner with partial-sum buffer) of HLS/conv_engine.cpp, together with *)
(* the golden reference of the testbench (conv_golden, pool_golden).       *)
(*                                                                         *)
(* Values are raw two's-complement integers: a data_t (ap_fixed<16,8>) is  *)
(* its 16-bit raw value in -32768..32767 (value = raw / 2^8), an acc_t     *)
(* (ap_fixed<32,16>) its 32-bit raw value (value = raw / 2^16).  A 256-bit *)
(* word is a function from the slot 0..15 to the 16 bits of that lane as   *)
(* an unsigned number 0..65535.                                            *)
(***************************************************************************)
EXTENDS Integers, Sequences, FiniteSets, TLC

(* ----------------------------------------------------------------------- *)
(* Program constants (conv_engine.h)                                       *)
(* ----------------------------------------------------------------------- *)
K_MAX == 3
ELEMS_PER_WORD == 16
MAX_STRIDE == 2
MAX_OC_STEPS == 64
DMA_LINE_WORDS == 4
DMA_WT_WORDS == 12
DMA_OUT_WORDS == 28
INPUT_STREAM_DEPTH == 8192
WEIGHT_STREAM_DEPTH == 4096
OUTPUT_STREAM_DEPTH == 4096

(* Range of the raw values of data_t and acc_t. *)
DATA_MAX == 32767
DATA_MIN == -32768
ACC_MAX == 2147483647
ACC_MIN == -2147483647 - 1

(* ----------------------------------------------------------------------- *)
(* Bounds of the model                                                     *)
(* ----------------------------------------------------------------------- *)
(* Capacity of the three FIFOs in the scenarios that do not use the        *)
(* depths of the STREAM pragmas.                                           *)
StreamCap == 1
(* Number of fill values tried for the storage the code never initialises. *)
MaxJunk == 1

(* ----------------------------------------------------------------------- *)
(* Integer helpers: C's "/" truncates toward zero, ">>" and "&" as used by *)
(* the code on non-negative ints.                                          *)
(* ----------------------------------------------------------------------- *)
Abs(x) == IF x < 0 THEN -x ELSE x

CDiv(a, b) ==
    IF (a >= 0) = (b > 0) THEN Abs(a) \div Abs(b) ELSE -(Abs(a) \div Abs(b))

Shr4(x) == x \div 16

And15(x) == x % 16

(* ----------------------------------------------------------------------- *)
(* Fixed-point kernel: ap_fixed<W,I,AP_RND,AP_SAT>                         *)
(* ----------------------------------------------------------------------- *)
(* A conversion that wraps around (AP_WRAP) instead of saturating. *)
SatDataWrap(x) == ((x + 32768) % 65536) - 32768

SatData(x) == IF x > DATA_MAX THEN DATA_MAX ELSE IF x < DATA_MIN THEN DATA_MIN ELSE x

(* acc_t = acc_t + acc_t: the 33-bit sum is saturated into 32 bits. *)
SatAddAcc(a, b) ==
    IF b > 0 /\ a > ACC_MAX - b THEN ACC_MAX
    ELSE IF b < 0 /\ a < ACC_MIN - b THEN ACC_MIN
    ELSE a + b

(* data_t * data_t is an exact ap_fixed<32,16>; the cast to acc_t keeps it. *)
MulData(w, x) == w * x

(* (data_t) of an acc_t: AP_RND adds half an LSB and drops 8 bits (floor), *)
(* AP_SAT clamps.                                                          *)
NarrowAcc(a) == SatData((a \div 256) + (((a % 256) + 128) \div 256))

(* acc_t bn_mul = acc * scale: the exact 48-bit product (24 fraction bits) *)
(* is rounded (AP_RND) to 16 fraction bits and saturated to 32 bits.       *)
(* acc = aH * 2^16 + aL keeps every intermediate inside 32 bits.           *)
MulAccScaleToAcc(acc, scale) ==
    LET aH == acc \div 65536
        aL == acc % 65536
        A  == aH * scale
        B  == aL * scale
        t  == (B + 128) \div 256
        C  == A + (t \div 256)
        r  == t % 256
    IN  IF C >= 8388608 THEN ACC_MAX
        ELSE IF C < -8388608 THEN ACC_MIN
        ELSE C * 256 + r

(* A narrowing that drops the low eight bits without rounding (AP_TRN). *)
NarrowAccPlusBiasTrn(bn_mul, bias) == SatData((bn_mul \div 256) + bias)

(* (data_t)(bn_mul + bias): the exact 33-bit sum narrowed once. *)
NarrowAccPlusBias(bn_mul, bias) ==
    SatData((bn_mul \div 256) + bias + (((bn_mul % 256) + 128) \div 256))

(* (data_t)(sum * scale + bias) of the golden reference: the exact product *)
(* (24 fraction bits) plus bias narrowed once to 8 fraction bits.          *)
NarrowProdPlusBias(sum, scale, bias) ==
    LET aH == sum \div 65536
        aL == sum % 65536
        A  == aH * scale
        B  == aL * scale
    IN  SatData(A + bias + ((B + 32768) \div 65536))

(* activate(): tmp = (acc_t)x; tmp = (tmp * 13) >> 7; (data_t)tmp.  In raw *)
(* units tmp = x * 256, x * 13 * 256 >> 7 = x * 26 exactly, then narrowed. *)
(* A leaky slope of 0.1: x / 10 in raw q16.16 units, narrowed. *)
LeakyTenth(x) == NarrowAcc((x * 256) \div 10)

Leaky(x) == NarrowAcc(x * 26)

activate(x, use_leaky) ==
    IF use_leaky < 0 THEN x
    ELSE IF x >= 0 THEN x
    ELSE IF use_leaky > 0 THEN Leaky(x)
    ELSE 0

(* ----------------------------------------------------------------------- *)
(* Bit slices of a 256-bit word                                            *)
(* ----------------------------------------------------------------------- *)
Slots == 0 .. (ELEMS_PER_WORD - 1)

(* val.range(15,0): the 16 bits of a data_t as an unsigned number. *)
ToBits(v) == IF v < 0 THEN v + 65536 ELSE v

(* x.range(15,0) = bits: the data_t whose 16 bits are bits. *)
FromBits(b) == IF b >= 32768 THEN b - 65536 ELSE b

extract_elem(word, slot) == FromBits(word[slot])

(* An insert that drives the whole word: the other lanes are cleared. *)
insert_elem_clearing(word, slot, val) == [s \in DOMAIN word |-> IF s = slot THEN ToBits(val) ELSE 0]

insert_elem(word, slot, val) == [word EXCEPT ![slot] = ToBits(val)]

ZeroWord == [s \in Slots |-> 0]

(* ----------------------------------------------------------------------- *)
(* Backing store: a region is a function from word index to word.          *)
(* ----------------------------------------------------------------------- *)
(* unpack_element() of the testbench. *)
unpack_element(dram, idx) == FromBits(dram[idx \div 16][idx % 16])

(* ----------------------------------------------------------------------- *)
(* Scenarios: the calls the caller makes.  A scenario fixes the arguments  *)
(* of a first call, the tensors (a palette of raw values repeated over the *)
(* flat index), the tile macros the engine is built with and, for the      *)
(* relational properties, how a second call is derived from the first.     *)
(* ----------------------------------------------------------------------- *)
PalAt(pal, i) == pal[(i % Len(pal)) + 1]

Tile(h, w, oc, ic) == [TILE_H |-> h, TILE_W |-> w, TILE_OC |-> oc, TILE_IC |-> ic]

Scn(ic, oc, h, w, k, s, pd, pool, ps, act, tl, tl2, rel, xp, wp, bp, deep) ==
    [IC |-> ic, OC |-> oc, H |-> h, W |-> w, K |-> k, S |-> s, P |-> pd,
     use_pool |-> pool, pool_stride |-> ps, use_leaky |-> act,
     tile |-> tl, tile2 |-> tl2, rel |-> rel,
     xpal |-> xp, wpal |-> wp, bnpal |-> bp, deep |-> deep]

NCalls(sc) == IF sc.rel = "none" THEN 1 ELSE 2

(* Arguments of call k of scenario sc. *)
CallParams(sc, k) ==
    LET second == (k = 2)
        pre    == second /\ sc.rel = "prepad"
    IN  [in_channels  |-> sc.IC,
         out_channels |-> sc.OC,
         in_height    |-> IF pre THEN sc.H + 2 * sc.P ELSE sc.H,
         in_width     |-> IF pre THEN sc.W + 2 * sc.P ELSE sc.W,
         kernel_size  |-> sc.K,
         stride       |-> sc.S,
         padding      |-> IF pre THEN 0 ELSE sc.P,
         use_pool     |-> IF sc.rel \in {"pool", "pool1"} THEN (IF second THEN 1 ELSE 0)
                          ELSE sc.use_pool,
         pool_stride  |-> IF sc.rel = "pool" THEN 2 ELSE IF sc.rel = "pool1" THEN 1
                          ELSE sc.pool_stride,
         use_leaky    |-> sc.use_leaky]

CallTile(sc, k) == IF k = 2 /\ sc.rel = "retile" THEN sc.tile2 ELSE sc.tile

(* Input tensor element (ic, r, c) of call k: the palette, or for the      *)
(* pre-padded second call the first call's tensor inside a frame of P      *)
(* zero rows and columns.                                                  *)
InputElem(sc, k, ic, r, c) ==
    IF k = 2 /\ sc.rel = "prepad"
    THEN IF r >= sc.P /\ r < sc.H + sc.P /\ c >= sc.P /\ c < sc.W + sc.P
         THEN PalAt(sc.xpal, (ic * sc.H + (r - sc.P)) * sc.W + (c - sc.P))
         ELSE 0
    ELSE PalAt(sc.xpal, (ic * sc.H + r) * sc.W + c)

InputFlat(sc, k, p, i) ==
    InputElem(sc, k, i \div (p.in_height * p.in_width),
              (i \div p.in_width) % p.in_height, i % p.in_width)

WeightFlat(sc, i) == PalAt(sc.wpal, i)

WordsFor(n) == IF n <= 0 THEN 1 ELSE (n + 15) \div 16

(* Contents of the output region before a call: a pattern no tensor value  *)
(* of the scenarios collides with by construction of the region.           *)
OutInitBits(flat) == 40000 + (flat % 1000)

(* ----------------------------------------------------------------------- *)
(* conv_engine: output dimensions                                          *)
(* ----------------------------------------------------------------------- *)
OutDim(in_dim, p) == CDiv(in_dim + 2 * p.padding - p.kernel_size, p.stride) + 1

out_height(p) == OutDim(p.in_height, p)

out_width(p) == OutDim(p.in_width, p)

(* A guard that lets kernel_size = K_MAX + 1 through. *)
RejectsAboveFour(p) == p.kernel_size > K_MAX + 1

(* The guard of conv_engine. *)
Rejects(p) == p.kernel_size > K_MAX

(* A pooled path taken for every pool_stride. *)
PoolingAnyStride(p) == p.use_pool /= 0

Pooling(p) == p.use_pool /= 0 /\ p.pool_stride >= 2

final_h(p) == IF Pooling(p) THEN CDiv(out_height(p), p.pool_stride) ELSE out_height(p)

final_w(p) == IF Pooling(p) THEN CDiv(out_width(p), p.pool_stride) ELSE out_width(p)

(* ----------------------------------------------------------------------- *)
(* State                                                                   *)
(* ----------------------------------------------------------------------- *)
VARIABLES
    scen,            \* the scenario (the caller's plan), fixed
    call,            \* number of calls of conv_engine made so far
    top,             \* conv_engine: "idle", "run" (in conv_dataflow), "returned"
    p,               \* arguments of the current call
    tile,            \* TILE_H, TILE_W, TILE_OC, TILE_IC of the build
    junk,            \* the value uninitialised on-chip storage reads as
    ub,              \* outcome of the out-of-range rows of LOAD_PSUM/SAVE_PSUM
    input_dram, weights_dram, bn_params_dram, output_dram,
    fet,             \* Fetch_Layer: pc and loop counters
    input_cache, weight_cache,
    input_stream, weight_stream, output_stream,
    exe,             \* Execute_Layer: pc and loop counters
    input_lcl, wt_buf, acc_buf, psum_buf, scale_buf, bias_buf,
    wr,              \* Write_Layer: pc and loop counters
    tile_buf,
    mem,             \* history: backing-store words read and written in this call
    placed,          \* history: flat output index -> number of placements
    emitted,         \* history: <<oc, r, c>> -> lane Execute emitted for it
    res,             \* history: the finished calls
    kern,            \* an application of a function of the fixed-point kernel
    drv              \* the driver: an XConv_engine instance and the registers

vars == <<scen, call, top, p, tile, junk, ub,
          input_dram, weights_dram, bn_params_dram, output_dram,
          fet, input_cache, weight_cache,
          input_stream, weight_stream, output_stream,
          exe, input_lcl, wt_buf, acc_buf, psum_buf, scale_buf, bias_buf,
          wr, tile_buf, mem, placed, emitted, res, kern, drv>>

memVars == <<input_dram, weights_dram, bn_params_dram>>
callVars == <<scen, call, top, p, tile, junk, ub, res, kern, drv>>
fetVars == <<fet, input_cache, weight_cache>>
exeVars == <<exe, input_lcl, wt_buf, acc_buf, psum_buf, scale_buf, bias_buf>>
wrVars == <<wr, tile_buf>>

TILE_H == tile.TILE_H
TILE_W == tile.TILE_W
TILE_OC == tile.TILE_OC
TILE_IC == tile.TILE_IC
CACHE_H == TILE_H * MAX_STRIDE + K_MAX - 1
CACHE_W == TILE_W * MAX_STRIDE + K_MAX - 1

(* On-chip arrays are functions from index tuples to values that hold the  *)
(* entries written so far; an entry never written reads as junk.           *)
Get(arr, key, dflt) == IF key \in DOMAIN arr THEN arr[key] ELSE dflt

Empty == <<>>

(* A counter per key: one more for key k. *)
Bump(f, k) == (k :> (Get(f, k, 0) + 1)) @@ f

JunkAcc == junk * 7

(* A backing-store read; a word outside the region reads as junk bits. *)
RdWord(dram, idx) == IF idx \in DOMAIN dram THEN dram[idx] ELSE [s \in Slots |-> ToBits(junk)]

(* ----------------------------------------------------------------------- *)
(* Tile scheduler (the same arithmetic in each of the three stages)        *)
(* ----------------------------------------------------------------------- *)
Steps(n, T) == CDiv(n + T - 1, T)

Clip(start, T, n) == IF start + T > n THEN n - start ELSE T

tr_steps == Steps(out_height(p), TILE_H)
tc_steps == Steps(out_width(p), TILE_W)
to_steps == Steps(p.out_channels, TILE_OC)
ti_steps == Steps(p.in_channels, TILE_IC)

r_start(tr) == tr * TILE_H
c_start(tc) == tc * TILE_W
curr_h(tr) == Clip(r_start(tr), TILE_H, out_height(p))
curr_w(tc) == Clip(c_start(tc), TILE_W, out_width(p))
KK == p.kernel_size * p.kernel_size

(* Loop nest ROW -> COL -> IC -> OC: the position after the OC tile `to`,  *)
(* as <<done, tr, tc, ti, to, newIc>>.                                     *)
AfterOc(tr, tc, ti, to) ==
    IF to + 1 < to_steps THEN [done |-> FALSE, tr |-> tr, tc |-> tc, ti |-> ti, to |-> to + 1, newIc |-> FALSE]
    ELSE IF ti + 1 < ti_steps THEN [done |-> FALSE, tr |-> tr, tc |-> tc, ti |-> ti + 1, to |-> 0, newIc |-> TRUE]
    ELSE IF tc + 1 < tc_steps THEN [done |-> FALSE, tr |-> tr, tc |-> tc + 1, ti |-> 0, to |-> 0, newIc |-> TRUE]
    ELSE IF tr + 1 < tr_steps THEN [done |-> FALSE, tr |-> tr + 1, tc |-> 0, ti |-> 0, to |-> 0, newIc |-> TRUE]
    ELSE [done |-> TRUE, tr |-> tr, tc |-> tc, ti |-> ti, to |-> to, newIc |-> FALSE]

(* FIFO capacities: the STREAM pragmas, or the model's bound. *)
InCap == IF scen.deep THEN INPUT_STREAM_DEPTH ELSE StreamCap
WtCap == IF scen.deep THEN WEIGHT_STREAM_DEPTH ELSE StreamCap
OutCap == IF scen.deep THEN OUTPUT_STREAM_DEPTH ELSE StreamCap

(* ----------------------------------------------------------------------- *)
(* STAGE 1: Fetch_Layer                                                    *)
(* ----------------------------------------------------------------------- *)
(* An input window without the K - 1 rows the kernel overhangs. *)
tile_in_h_no_halo(tr) == curr_h(tr) * p.stride

tile_in_h(tr) == curr_h(tr) * p.stride + p.kernel_size - 1
tile_in_w(tc) == curr_w(tc) * p.stride + p.kernel_size - 1
h_base(tr) == r_start(tr) * p.stride - p.padding
w_base(tc) == c_start(tc) * p.stride - p.padding
ic_base(ti) == ti * TILE_IC
ic_valid(ti) == Clip(ic_base(ti), TILE_IC, p.in_channels)
oc_base(to) == to * TILE_OC
oc_valid(to) == Clip(oc_base(to), TILE_OC, p.out_channels)

(* A row fill that reads the lanes of channels that do not exist too. *)
FillRowAnyLane(tr, tc, ti, ic, i) ==
    LET abs_ic == ic_base(ti) + ic
        r_idx  == h_base(tr) + i
        wb     == w_base(tc)
        c_lo   == IF wb < 0 THEN -wb ELSE 0
        c_hi   == IF wb + tile_in_w(tc) > p.in_width THEN p.in_width - wb ELSE tile_in_w(tc)
        row_base == (abs_ic * p.in_height + r_idx) * p.in_width
        first_word == Shr4(row_base + wb + c_lo)
        last_word  == Shr4(row_base + wb + c_hi - 1)
    IN  [read |-> r_idx >= 0 /\ r_idx < p.in_height /\ c_lo < c_hi,
         c_lo |-> c_lo, c_hi |-> c_hi, row_base |-> row_base,
         first_word |-> first_word, n_words |-> last_word - first_word + 1]

(* A row burst that starts at the first word of the input row instead of   *)
(* the first word of the window.                                           *)
FillRowFromRowStart(tr, tc, ti, ic, i) ==
    LET abs_ic == ic_base(ti) + ic
        r_idx  == h_base(tr) + i
        wb     == w_base(tc)
        c_lo   == IF wb < 0 THEN -wb ELSE 0
        c_hi   == IF wb + tile_in_w(tc) > p.in_width THEN p.in_width - wb ELSE tile_in_w(tc)
        row_base == (abs_ic * p.in_height + r_idx) * p.in_width
        first_word == Shr4(row_base)
        last_word  == Shr4(row_base + wb + c_hi - 1)
    IN  [read |-> abs_ic < p.in_channels /\ r_idx >= 0 /\ r_idx < p.in_height /\ c_lo < c_hi,
         c_lo |-> c_lo, c_hi |-> c_hi, row_base |-> row_base,
         first_word |-> first_word, n_words |-> last_word - first_word + 1]

(* FILL_ROW for cache row i of lane ic: the valid column range and the     *)
(* burst that covers it.                                                   *)
FillRow(tr, tc, ti, ic, i) ==
    LET abs_ic == ic_base(ti) + ic
        r_idx  == h_base(tr) + i
        wb     == w_base(tc)
        c_lo   == IF wb < 0 THEN -wb ELSE 0
        c_hi   == IF wb + tile_in_w(tc) > p.in_width THEN p.in_width - wb ELSE tile_in_w(tc)
        row_base == (abs_ic * p.in_height + r_idx) * p.in_width
        first_word == Shr4(row_base + wb + c_lo)
        last_word  == Shr4(row_base + wb + c_hi - 1)
    IN  [read |-> abs_ic < p.in_channels /\ r_idx >= 0 /\ r_idx < p.in_height /\ c_lo < c_hi,
         c_lo |-> c_lo, c_hi |-> c_hi, row_base |-> row_base,
         first_word |-> first_word, n_words |-> last_word - first_word + 1]

(* DMA_IN_BURST: the staging buffer after the burst of one row. *)
dma_line(row) == [w \in 0 .. (row.n_words - 1) |-> RdWord(input_dram, row.first_word + w)]

(* A fill without FILL_CLEAR: the positions outside the input keep what    *)
(* the cache held.                                                         *)
FillElemNoClear(tr, tc, ti, ic, i, j) ==
    LET row == FillRow(tr, tc, ti, ic, i)
    IN  IF row.read /\ j >= row.c_lo /\ j < row.c_hi
        THEN LET abs_idx == row.row_base + w_base(tc) + j
             IN  extract_elem(dma_line(row)[Shr4(abs_idx) - row.first_word], And15(abs_idx))
        ELSE Get(input_cache, <<ic, i, j>>, junk)

(* A fill that skips the lanes of the channels that do not exist: their    *)
(* entries keep what the cache held.                                       *)
FillElemKeepLane(tr, tc, ti, ic, i, j) ==
    LET row == FillRow(tr, tc, ti, ic, i)
    IN  IF ic_base(ti) + ic >= p.in_channels THEN Get(input_cache, <<ic, i, j>>, junk)
        ELSE IF row.read /\ j >= row.c_lo /\ j < row.c_hi
        THEN LET abs_idx == row.row_base + w_base(tc) + j
             IN  extract_elem(dma_line(row)[Shr4(abs_idx) - row.first_word], And15(abs_idx))
        ELSE 0

(* FILL_CLEAR then SCATTER_IN: the value input_cache[ic][i][j] gets. *)
FillElem(tr, tc, ti, ic, i, j) ==
    LET row == FillRow(tr, tc, ti, ic, i)
    IN  IF row.read /\ j >= row.c_lo /\ j < row.c_hi
        THEN LET abs_idx == row.row_base + w_base(tc) + j
                 wi == Shr4(abs_idx) - row.first_word
                 si == And15(abs_idx)
             IN  extract_elem(dma_line(row)[wi], si)
        ELSE 0

FillKeys(tr, tc) ==
    (0 .. (TILE_IC - 1)) \X (0 .. (tile_in_h(tr) - 1)) \X (0 .. (tile_in_w(tc) - 1))

FillWordsRead(tr, tc, ti) ==
    UNION { LET row == FillRow(tr, tc, ti, k[1], k[2])
            IN  IF row.read THEN row.first_word .. (row.first_word + row.n_words - 1) ELSE {}
            : k \in (0 .. (TILE_IC - 1)) \X (0 .. (tile_in_h(tr) - 1)) }

(* An entry of mem.fet_log: a fill of the input cache or a load of a       *)
(* weight block from the backing store.                                    *)
FetEvent(ev, tr, tc, ti, to) == [ev |-> ev, tr |-> tr, tc |-> tc, ti |-> ti, to |-> to]

(* PHASE A (FILL_IC): once per (tr, tc, ti). *)
FetchFill ==
    /\ top = "run" /\ fet.pc = "fill"
    /\ input_cache' = [k \in FillKeys(fet.tr, fet.tc) |->
                          FillElem(fet.tr, fet.tc, fet.ti, k[1], k[2], k[3])] @@ input_cache
    /\ mem' = [mem EXCEPT !.in_rd = @ \cup FillWordsRead(fet.tr, fet.tc, fet.ti),
                           !.fet_log = Append(@, FetEvent("fill", fet.tr, fet.tc, fet.ti, 0))]
    /\ fet' = [fet EXCEPT !.pc = "stream_in", !.n = 0]
    /\ UNCHANGED <<callVars, memVars, output_dram, weight_cache,
                   input_stream, weight_stream, output_stream, exeVars, wrVars,
                   placed, emitted>>

(* Position (ky, kx, i, j) of the n-th word of the input stream of a tile. *)
InPos(n, tr, tc) ==
    LET ch == curr_h(tr)
        cw == curr_w(tc)
    IN  [ky |-> n \div (p.kernel_size * ch * cw),
         kx |-> (n \div (ch * cw)) % p.kernel_size,
         i  |-> (n \div cw) % ch,
         j  |-> n % cw]

(* An input stream that carries whole tiles. *)
NInFullTile(tr, tc) == KK * TILE_H * TILE_W

NIn(tr, tc) == KK * curr_h(tr) * curr_w(tc)

(* PACK_IN_IC: lane ic holds input_cache[ic][i*S+ky][j*S+kx]. *)
InVec(pos) ==
    [ic \in 0 .. (TILE_IC - 1) |->
        ToBits(Get(input_cache, <<ic, pos.i * p.stride + pos.ky, pos.j * p.stride + pos.kx>>, junk))]

FetchAfterIn == IF to_steps > 0
                THEN [done |-> FALSE, tr |-> fet.tr, tc |-> fet.tc, ti |-> fet.ti, to |-> 0, newIc |-> FALSE]
                ELSE AfterOc(fet.tr, fet.tc, fet.ti, 0)

(* An OC-outer schedule: the input cache is filled again for every OC     *)
(* tile.                                                                   *)
FetchGotoRefill(nx) ==
    [pc |-> IF nx.done THEN "done" ELSE "fill",
     tr |-> nx.tr, tc |-> nx.tc, ti |-> nx.ti, to |-> nx.to, n |-> 0]

FetchGoto(nx) ==
    [pc |-> IF nx.done THEN "done" ELSE IF nx.newIc THEN "fill" ELSE "load_wt",
     tr |-> nx.tr, tc |-> nx.tc, ti |-> nx.ti, to |-> nx.to, n |-> 0]

(* PHASE D (STREAM_IN_KY..J): one input_stream.write. *)
FetchStreamIn ==
    /\ top = "run" /\ fet.pc = "stream_in"
    /\ Len(input_stream) < InCap
    /\ input_stream' = Append(input_stream, InVec(InPos(fet.n, fet.tr, fet.tc)))
    /\ fet' = IF fet.n + 1 < NIn(fet.tr, fet.tc)
              THEN [fet EXCEPT !.n = @ + 1]
              ELSE FetchGoto(FetchAfterIn)
    /\ mem' = [mem EXCEPT !.in_w = @ + 1]
    /\ UNCHANGED <<callVars, memVars, output_dram, input_cache, weight_cache,
                   weight_stream, output_stream, exeVars, wrVars, placed, emitted>>

(* LD_WT_OC for lane oc: the block of ic_valid * K * K weights. *)
WtBlock(ti, to, oc) ==
    LET block_start == ((oc_base(to) + oc) * p.in_channels + ic_base(ti)) * p.kernel_size * p.kernel_size
        block_elems == ic_valid(ti) * p.kernel_size * p.kernel_size
        fw == Shr4(block_start)
        lw == Shr4(block_start + block_elems - 1)
    IN  [block_start |-> block_start, fw |-> fw, nw |-> lw - fw + 1]

(* DMA_WT_BURST: the staging buffer after the burst of one block. *)
dma_wt(blk) == [w \in 0 .. (blk.nw - 1) |-> RdWord(weights_dram, blk.fw + w)]

(* An unpack that takes the block to start at slot 0 of its first word. *)
WtElemAligned(ti, to, oc, ic, ky, kx) ==
    LET blk  == WtBlock(ti, to, oc)
        flat == 16 * blk.fw + ic * p.kernel_size * p.kernel_size + ky * p.kernel_size + kx
        wi   == Shr4(flat) - blk.fw
        si   == And15(flat)
    IN  extract_elem(RdWord(weights_dram, blk.fw + wi), si)

(* UNPACK_WT_IC..KX: the value weight_cache[oc][ic][ky][kx] gets. *)
WtElem(ti, to, oc, ic, ky, kx) ==
    LET blk  == WtBlock(ti, to, oc)
        flat == blk.block_start + ic * p.kernel_size * p.kernel_size + ky * p.kernel_size + kx
        wi   == Shr4(flat) - blk.fw
        si   == And15(flat)
    IN  extract_elem(dma_wt(blk)[wi], si)

WtKeys(ti, to) ==
    (0 .. (oc_valid(to) - 1)) \X (0 .. (ic_valid(ti) - 1))
        \X (0 .. (p.kernel_size - 1)) \X (0 .. (p.kernel_size - 1))

WtWordsRead(ti, to) ==
    UNION { LET blk == WtBlock(ti, to, oc) IN blk.fw .. (blk.fw + blk.nw - 1)
            : oc \in 0 .. (oc_valid(to) - 1) }

(* Load weights for this (OC, IC) pair. *)
FetchLoadWt ==
    /\ top = "run" /\ fet.pc = "load_wt"
    /\ weight_cache' = [k \in WtKeys(fet.ti, fet.to) |->
                           WtElem(fet.ti, fet.to, k[1], k[2], k[3], k[4])] @@ weight_cache
    /\ mem' = [mem EXCEPT !.wt_rd = @ \cup WtWordsRead(fet.ti, fet.to),
                           !.fet_log = Append(@, FetEvent("wt", fet.tr, fet.tc, fet.ti, fet.to))]
    /\ fet' = [fet EXCEPT !.pc = "stream_wt", !.n = 0]
    /\ UNCHANGED <<callVars, memVars, output_dram, input_cache,
                   input_stream, weight_stream, output_stream, exeVars, wrVars,
                   placed, emitted>>

(* Position (oc, ky, kx) of the n-th word of the weight stream of a tile. *)
WtPos(n) == [oc |-> n \div KK, ky |-> (n % KK) \div p.kernel_size, kx |-> n % p.kernel_size]

(* A weight stream that carries the lanes of existing channels only. *)
NWtValidLanes == (IF p.out_channels < TILE_OC THEN p.out_channels ELSE TILE_OC) * KK

NWt == TILE_OC * KK

(* PACK_WT_IC: lane ic holds weight_cache[oc][ic][ky][kx]. *)
WtVec(pos) ==
    [ic \in 0 .. (TILE_IC - 1) |-> ToBits(Get(weight_cache, <<pos.oc, ic, pos.ky, pos.kx>>, junk))]

(* STREAM_WT_OC..KX: one weight_stream.write. *)
FetchStreamWt ==
    /\ top = "run" /\ fet.pc = "stream_wt"
    /\ Len(weight_stream) < WtCap
    /\ weight_stream' = Append(weight_stream, WtVec(WtPos(fet.n)))
    /\ fet' = IF fet.n + 1 < NWt
              THEN [fet EXCEPT !.n = @ + 1]
              ELSE FetchGoto(AfterOc(fet.tr, fet.tc, fet.ti, fet.to))
    /\ mem' = [mem EXCEPT !.wt_sent = Bump(@, <<fet.tr, fet.tc, fet.ti, fet.to>>),
                           !.wt_w = @ + 1]
    /\ UNCHANGED <<callVars, memVars, output_dram, input_cache, weight_cache,
                   input_stream, output_stream, exeVars, wrVars, placed, emitted>>

(* ----------------------------------------------------------------------- *)
(* STAGE 2: Execute_Layer                                                  *)
(* ----------------------------------------------------------------------- *)
is_first_ic(ti) == ti = 0
(* A post-processing that runs after every IC tile. *)
is_last_ic_every(ti) == TRUE

is_last_ic(ti) == ti = ti_steps - 1

ExecAfterIn == IF to_steps > 0
               THEN [done |-> FALSE, tr |-> exe.tr, tc |-> exe.tc, ti |-> exe.ti, to |-> 0, newIc |-> FALSE]
               ELSE AfterOc(exe.tr, exe.tc, exe.ti, 0)

ExecGoto(nx) ==
    [pc |-> IF nx.done THEN "done" ELSE IF nx.newIc THEN "load_in" ELSE "oc_begin",
     tr |-> nx.tr, tc |-> nx.tc, ti |-> nx.ti, to |-> nx.to, n |-> 0]

(* A read loop nest with kx outermost: KX -> KY -> I -> J. *)
LoadInPosKxOuter(n, tr, tc) ==
    LET ch == curr_h(tr)
        cw == curr_w(tc)
    IN  [kx |-> n \div (p.kernel_size * ch * cw),
         ky |-> (n \div (ch * cw)) % p.kernel_size,
         i  |-> (n \div cw) % ch,
         j  |-> n % cw]

(* Loop nest LOAD_IN_KY -> KX -> I -> J: the indices (ky, kx, i, j) of     *)
(* input_lcl at which the n-th word read for a tile is stored.             *)
LoadInPos(n, tr, tc) ==
    LET ch == curr_h(tr)
        cw == curr_w(tc)
    IN  [ky |-> n \div (p.kernel_size * ch * cw),
         kx |-> (n \div (ch * cw)) % p.kernel_size,
         i  |-> (n \div cw) % ch,
         j  |-> n % cw]

(* LOAD_IN_KY..J: one input_stream.read into input_lcl[ky][kx][i][j]. *)
ExecLoadIn ==
    /\ top = "run" /\ exe.pc = "load_in"
    /\ input_stream /= <<>>
    /\ LET pos == LoadInPos(exe.n, exe.tr, exe.tc)
       IN  input_lcl' = (<<pos.ky, pos.kx, pos.i, pos.j>> :> Head(input_stream)) @@ input_lcl
    /\ input_stream' = Tail(input_stream)
    /\ exe' = IF exe.n + 1 < NIn(exe.tr, exe.tc)
              THEN [exe EXCEPT !.n = @ + 1]
              ELSE ExecGoto(ExecAfterIn)
    /\ mem' = [mem EXCEPT !.in_recv = Bump(@, <<exe.tr, exe.tc, exe.ti, exe.to>>),
                           !.in_r = @ + 1]
    /\ UNCHANGED <<callVars, memVars, output_dram, fetVars, weight_stream, output_stream,
                   wt_buf, acc_buf, psum_buf, scale_buf, bias_buf, wrVars,
                   placed, emitted>>

(* A read of the affine region (data_t elements). *)
RdBn(idx) == IF idx \in DOMAIN bn_params_dram THEN bn_params_dram[idx] ELSE junk

(* LOAD_BN: idx runs over 0 .. TILE_OC*2-1; odd idx is the bias. *)
LoadBnScale(to) == [oc \in 0 .. (TILE_OC - 1) |-> RdBn(to * TILE_OC * 2 + 2 * oc)]
LoadBnBias(to) == [oc \in 0 .. (TILE_OC - 1) |-> RdBn(to * TILE_OC * 2 + 2 * oc + 1)]
BnRead(to) == (to * TILE_OC * 2) .. (to * TILE_OC * 2 + TILE_OC * 2 - 1)

(* LOAD_PSUM and SAVE_PSUM run idx over 0 .. TILE_OC*TILE_H-1 and address  *)
(* row [idx >> 4][idx & 0xF].  With TILE_H = 16 these are all rows.  With  *)
(* another TILE_H the second index leaves [0, TILE_H): an access outside   *)
(* the array, which either lands on the row that follows in memory         *)
(* ("alias") or has no effect ("drop").                                    *)
PsumRows ==
    LET idxs == 0 .. (TILE_OC * TILE_H - 1)
    IN  IF ub = "alias"
        THEN { <<((idx \div 16) * TILE_H + (idx % 16)) \div TILE_H,
                 ((idx \div 16) * TILE_H + (idx % 16)) % TILE_H>> : idx \in idxs }
        ELSE { <<idx \div 16, idx % 16>> : idx \in { x \in idxs : (x % 16) < TILE_H } }

(* psum_buf has MAX_OC_STEPS slots.  A slot index beyond them is an access *)
(* outside the array: the flattened address wraps at the size of the       *)
(* memory ("alias") or the access has no effect (-1, "drop").              *)
PsumSlot(to) ==
    IF to < MAX_OC_STEPS THEN to
    ELSE IF ub = "alias" THEN to % MAX_OC_STEPS
    ELSE -1

(* A first IC tile that leaves the accumulators as they are. *)
ClearAccSkipped(tr, tc) == acc_buf

(* Initialize accumulator, first IC tile: CLEAR_ACC_H/W/OC. *)
ClearAcc(tr, tc) ==
    [k \in (0 .. (TILE_OC - 1)) \X (0 .. (curr_h(tr) - 1)) \X (0 .. (curr_w(tc) - 1)) |-> 0]
        @@ acc_buf

(* LOAD_PSUM: acc_buf[oc][i][j] = psum_buf[to][oc][i][j]. *)
LoadPsum(to) ==
    LET rows == PsumRows
        slot == PsumSlot(to)
        keep == { k \in DOMAIN acc_buf : <<k[1], k[2]>> \notin rows }
        from == { q \in DOMAIN psum_buf : q[1] = slot /\ <<q[2], q[3]>> \in rows }
        load == { <<q[2], q[3], q[4]>> : q \in from }
    IN  [k \in keep \cup load |->
            IF k \in load THEN psum_buf[<<slot, k[1], k[2], k[3]>>] ELSE acc_buf[k]]

(* SAVE_PSUM: psum_buf[to][oc][i][j] = acc_buf[oc][i][j]. *)
SavePsum(to) ==
    LET rows == PsumRows
        slot == PsumSlot(to)
        keep == { q \in DOMAIN psum_buf : ~(q[1] = slot /\ <<q[2], q[3]>> \in rows) }
        from == { k \in DOMAIN acc_buf : <<k[1], k[2]>> \in rows }
        save == { <<slot, k[1], k[2], k[3]>> : k \in from }
    IN  IF slot < 0 THEN psum_buf
        ELSE [q \in keep \cup save |->
                 IF q \in save THEN acc_buf[<<q[2], q[3], q[4]>>] ELSE psum_buf[q]]

(* Head of EXEC_OC: load BN params on the last IC tile, then clear the     *)
(* accumulator or load the partial sums.                                   *)
ExecBegin ==
    /\ top = "run" /\ exe.pc = "oc_begin"
    /\ IF is_last_ic(exe.ti)
       THEN /\ scale_buf' = LoadBnScale(exe.to)
            /\ bias_buf' = LoadBnBias(exe.to)
            /\ mem' = [mem EXCEPT !.bn_rd = @ \cup BnRead(exe.to)]
       ELSE UNCHANGED <<scale_buf, bias_buf, mem>>
    /\ acc_buf' = IF is_first_ic(exe.ti) THEN ClearAcc(exe.tr, exe.tc) ELSE LoadPsum(exe.to)
    /\ exe' = [exe EXCEPT !.pc = "read_wt", !.n = 0]
    /\ UNCHANGED <<callVars, memVars, output_dram, fetVars,
                   input_stream, weight_stream, output_stream,
                   input_lcl, wt_buf, psum_buf, wrVars, placed, emitted>>

(* Loop nest READ_WT_OC -> KY -> KX: the indices (oc, ky, kx) of wt_buf at *)
(* which the n-th weight word read for an OC tile is stored.               *)
ReadWtPos(n) == [oc |-> n \div KK, ky |-> (n % KK) \div p.kernel_size, kx |-> n % p.kernel_size]

(* READ_WT_OC..KX: one weight_stream.read into wt_buf[oc][*][ky][kx]. *)
ExecReadWt ==
    /\ top = "run" /\ exe.pc = "read_wt"
    /\ weight_stream /= <<>>
    /\ LET pos == ReadWtPos(exe.n)
           w_pkg == Head(weight_stream)
       IN  wt_buf' = [k \in {<<pos.oc, ic, pos.ky, pos.kx>> : ic \in 0 .. (TILE_IC - 1)} |->
                         FromBits(w_pkg[k[2]])] @@ wt_buf
    /\ weight_stream' = Tail(weight_stream)
    /\ exe' = IF exe.n + 1 < NWt
              THEN [exe EXCEPT !.n = @ + 1]
              ELSE [exe EXCEPT !.pc = "compute", !.n = 0]
    /\ mem' = [mem EXCEPT !.wt_recv = Bump(@, <<exe.tr, exe.tc, exe.ti, exe.to>>),
                           !.wt_r = @ + 1]
    /\ UNCHANGED <<callVars, memVars, output_dram, fetVars, input_stream, output_stream,
                   input_lcl, acc_buf, psum_buf, scale_buf, bias_buf, wrVars,
                   placed, emitted>>

(* MAC_IC: dot += (acc_t)(w_val * in_val) over the lanes ic = from .. TILE_IC-1. *)
RECURSIVE MacIc(_, _, _, _, _)
MacIc(dot, ic, oc, kyx, in_pkg) ==
    IF ic >= TILE_IC THEN dot
    ELSE MacIc(SatAddAcc(dot, MulData(Get(wt_buf, <<oc, ic, kyx[1], kyx[2]>>, junk),
                                      FromBits(in_pkg[ic]))),
               ic + 1, oc, kyx, in_pkg)

JunkVec == [ic \in 0 .. (TILE_IC - 1) |-> ToBits(junk)]

(* COMPUTE_KY/KX for one (oc, i, j): acc += dot for the kernel offsets     *)
(* n .. K*K-1 in the order ky, kx.                                         *)
RECURSIVE MacKyKx(_, _, _, _, _)
MacKyKx(acc, n, oc, i, j) ==
    IF n >= KK THEN acc
    ELSE LET ky == n \div p.kernel_size
             kx == n % p.kernel_size
             in_pkg == Get(input_lcl, <<ky, kx, i, j>>, JunkVec)
         IN  MacKyKx(SatAddAcc(acc, MacIc(0, 0, oc, <<ky, kx>>, in_pkg)), n + 1, oc, i, j)

(* 256-MAC compute over the tile. *)
ExecCompute ==
    /\ top = "run" /\ exe.pc = "compute"
    /\ acc_buf' = [k \in (0 .. (TILE_OC - 1)) \X (0 .. (curr_h(exe.tr) - 1))
                              \X (0 .. (curr_w(exe.tc) - 1)) |->
                      MacKyKx(Get(acc_buf, k, JunkAcc), 0, k[1], k[2], k[3])] @@ acc_buf
    /\ exe' = [exe EXCEPT !.pc = IF is_last_ic(exe.ti) THEN "emit" ELSE "save", !.n = 0]
    /\ UNCHANGED <<callVars, memVars, output_dram, fetVars,
                   input_stream, weight_stream, output_stream,
                   input_lcl, wt_buf, psum_buf, scale_buf, bias_buf, wrVars,
                   mem, placed, emitted>>

(* The accumulators of the tile: acc_buf[oc][i][j] over the TILE_OC lanes  *)
(* and [0, curr_h) x [0, curr_w).                                          *)
AccRegion(tr, tc) ==
    [k \in (0 .. (TILE_OC - 1)) \X (0 .. (curr_h(tr) - 1)) \X (0 .. (curr_w(tc) - 1)) |->
        Get(acc_buf, k, JunkAcc)]

(* Not the last IC tile: save partial sums. *)
ExecSave ==
    /\ top = "run" /\ exe.pc = "save"
    /\ psum_buf' = SavePsum(exe.to)
    /\ mem' = [mem EXCEPT !.saved =
                  (<<exe.tr, exe.tc, exe.to>> :> [ti |-> exe.ti, acc |-> AccRegion(exe.tr, exe.tc)]) @@ @]
    /\ exe' = ExecGoto(AfterOc(exe.tr, exe.tc, exe.ti, exe.to))
    /\ UNCHANGED <<callVars, memVars, output_dram, fetVars,
                   input_stream, weight_stream, output_stream,
                   input_lcl, wt_buf, acc_buf, scale_buf, bias_buf, wrVars,
                   placed, emitted>>

(* OUT_PACK_OC: bn_mul = acc * scale; res = activate((data_t)(bn_mul + bias)). *)
OutLane(oc, i, j) ==
    LET bn_mul == MulAccScaleToAcc(Get(acc_buf, <<oc, i, j>>, JunkAcc), Get(scale_buf, oc, junk))
    IN  activate(NarrowAccPlusBias(bn_mul, Get(bias_buf, oc, junk)), p.use_leaky)

OutVec(i, j) == [oc \in 0 .. (TILE_OC - 1) |-> ToBits(OutLane(oc, i, j))]

(* STREAM_OUT_H/W: one output_stream.write. *)
ExecEmit ==
    /\ top = "run" /\ exe.pc = "emit"
    /\ Len(output_stream) < OutCap
    /\ LET i == exe.n \div curr_w(exe.tc)
           j == exe.n % curr_w(exe.tc)
           out_pkg == OutVec(i, j)
       IN  /\ output_stream' = Append(output_stream, out_pkg)
           /\ emitted' = [k \in {<<oc_base(exe.to) + oc, r_start(exe.tr) + i, c_start(exe.tc) + j>> :
                                    oc \in 0 .. (oc_valid(exe.to) - 1)} |->
                             out_pkg[k[1] - oc_base(exe.to)]] @@ emitted
    /\ exe' = IF exe.n + 1 < curr_h(exe.tr) * curr_w(exe.tc)
              THEN [exe EXCEPT !.n = @ + 1]
              ELSE ExecGoto(AfterOc(exe.tr, exe.tc, exe.ti, exe.to))
    /\ mem' = [mem EXCEPT !.out_w = @ + 1]
    /\ UNCHANGED <<callVars, memVars, output_dram, fetVars, input_stream, weight_stream,
                   input_lcl, wt_buf, acc_buf, psum_buf, scale_buf, bias_buf, wrVars,
                   placed>>

(* ----------------------------------------------------------------------- *)
(* STAGE 3: Write_Layer                                                    *)
(* ----------------------------------------------------------------------- *)
(* A tile order with the row index innermost: OC -> ROW -> COL. *)
AfterWriteTileRowInner(tr, tc, to) ==
    IF to + 1 < to_steps THEN [done |-> FALSE, tr |-> tr, tc |-> tc, to |-> to + 1]
    ELSE IF tr + 1 < tr_steps THEN [done |-> FALSE, tr |-> tr + 1, tc |-> tc, to |-> 0]
    ELSE IF tc + 1 < tc_steps THEN [done |-> FALSE, tr |-> 0, tc |-> tc + 1, to |-> 0]
    ELSE [done |-> TRUE, tr |-> tr, tc |-> tc, to |-> to]

(* Loop nest ROW -> COL -> OC of Write_Layer. *)
AfterWriteTile(tr, tc, to) ==
    IF to + 1 < to_steps THEN [done |-> FALSE, tr |-> tr, tc |-> tc, to |-> to + 1]
    ELSE IF tc + 1 < tc_steps THEN [done |-> FALSE, tr |-> tr, tc |-> tc + 1, to |-> 0]
    ELSE IF tr + 1 < tr_steps THEN [done |-> FALSE, tr |-> tr + 1, tc |-> 0, to |-> 0]
    ELSE [done |-> TRUE, tr |-> tr, tc |-> tc, to |-> to]

(* A channel limit that takes every OC tile as full. *)
oc_limit_full(to) == TILE_OC

oc_limit(to) == IF to * TILE_OC + TILE_OC > p.out_channels
                THEN p.out_channels - to * TILE_OC ELSE TILE_OC

ph(tr) == CDiv(curr_h(tr), p.pool_stride)
pw(tc) == CDiv(curr_w(tc), p.pool_stride)

(* Rows placed per channel of a tile. *)
RowsPerOc(tr) == IF Pooling(p) THEN ph(tr) ELSE curr_h(tr)

WriteGoto(nx) ==
    [pc |-> IF nx.done THEN "done" ELSE "rd_stream",
     tr |-> nx.tr, tc |-> nx.tc, to |-> nx.to, n |-> 0, oc |-> 0, i |-> 0]

(* Phase 1 (RD_STREAM_H/W): one output_stream.read, demultiplexed into     *)
(* tile_buf[oc][i][j] for the TILE_OC lanes.                               *)
WriteRead ==
    /\ top = "run" /\ wr.pc = "rd_stream"
    /\ output_stream /= <<>>
    /\ LET i == wr.n \div curr_w(wr.tc)
           j == wr.n % curr_w(wr.tc)
           out_pkg == Head(output_stream)
       IN  tile_buf' = [k \in {<<oc, i, j>> : oc \in 0 .. (TILE_OC - 1)} |->
                           FromBits(out_pkg[k[1]])] @@ tile_buf
    /\ output_stream' = Tail(output_stream)
    /\ wr' = IF wr.n + 1 < curr_h(wr.tr) * curr_w(wr.tc)
             THEN [wr EXCEPT !.n = @ + 1]
             ELSE IF oc_limit(wr.to) > 0 /\ RowsPerOc(wr.tr) > 0
                  THEN [wr EXCEPT !.pc = "place", !.oc = 0, !.i = 0]
                  ELSE WriteGoto(AfterWriteTile(wr.tr, wr.tc, wr.to))
    /\ mem' = [mem EXCEPT !.out_r = @ + 1]
    /\ UNCHANGED <<callVars, memVars, output_dram, fetVars, input_stream, weight_stream,
                   exeVars, placed, emitted>>

(* Address decode of an output row of `width` elements starting at flat    *)
(* index base_idx.                                                         *)
RowAddr(base_idx, width) ==
    LET first_word == Shr4(base_idx)
        end_idx    == base_idx + width - 1
        last_word  == Shr4(end_idx)
    IN  [base_idx |-> base_idx, width |-> width,
         first_word |-> first_word, start_slot |-> And15(base_idx),
         end_idx |-> end_idx, n_words |-> last_word - first_word + 1]

(* An edge policy that reads the first word of a row only. *)
EdgeReadFirstOnly(a, w) == w = 0 /\ a.start_slot /= 0

(* EDGE_RD_*: is staging word w loaded from the backing store? *)
EdgeRead(a, w) ==
    \/ (w = 0 /\ a.start_slot /= 0)
    \/ (w = a.n_words - 1 /\ And15(a.end_idx) /= 15)

(* The staging buffer after the edge reads. *)
EdgeWords(a) ==
    [w \in 0 .. (a.n_words - 1) |->
        IF EdgeRead(a, w) THEN RdWord(output_dram, a.first_word + w) ELSE ZeroWord]

(* PACK_*: insert_elem(dma_out[wi], si, vals[j]) for j = from .. width-1.  *)
RECURSIVE PackRow(_, _, _, _)
PackRow(dma_out, a, vals, j) ==
    IF j >= a.width THEN dma_out
    ELSE LET flat == a.base_idx + j
             wi   == Shr4(flat) - a.first_word
             si   == And15(flat)
         IN  PackRow([dma_out EXCEPT ![wi] = insert_elem(dma_out[wi], si, vals[j])],
                     a, vals, j + 1)

(* BURST_WR_*: output_dram[first_word + w] = dma_out[w]. *)
BurstWrite(dram, a, dma_out) ==
    [k \in DOMAIN dram |->
        IF k >= a.first_word /\ k < a.first_word + a.n_words THEN dma_out[k - a.first_word]
        ELSE dram[k]]

(* A row placement that writes each word back as soon as it is staged. *)
RowAccessesWordByWord(a) ==
    LET Word(w) == IF EdgeRead(a, w) THEN << <<"rd", a.first_word + w>>, <<"wr", a.first_word + w>> >>
                   ELSE << <<"wr", a.first_word + w>> >>
        RECURSIVE From(_)
        From(w) == IF w >= a.n_words THEN <<>> ELSE Word(w) \o From(w + 1)
    IN  From(0)

(* The output_dram accesses of one row in program order: EDGE_RD_* for     *)
(* w = 0 .. n_words-1 (a read where the condition holds), then BURST_WR_*  *)
(* for w = 0 .. n_words-1.                                                 *)
RowAccesses(a) ==
    LET RECURSIVE Reads(_)
        Reads(w) == IF w >= a.n_words THEN <<>>
                    ELSE (IF EdgeRead(a, w) THEN << <<"rd", a.first_word + w>> >> ELSE <<>>)
                         \o Reads(w + 1)
        RECURSIVE Writes(_)
        Writes(w) == IF w >= a.n_words THEN <<>>
                     ELSE << <<"wr", a.first_word + w>> >> \o Writes(w + 1)
    IN  Reads(0) \o Writes(0)

(* Steps 2c-2e for one row: read edge words, pack, burst write. *)
PlaceRow(a, vals) ==
    /\ output_dram' = BurstWrite(output_dram, a, PackRow(EdgeWords(a), a, vals, 0))
    /\ mem' = [mem EXCEPT
                 !.out_rd = @ \cup { a.first_word + w : w \in { x \in 0 .. (a.n_words - 1) : EdgeRead(a, x) } },
                 !.out_wr = @ \cup (a.first_word .. (a.first_word + a.n_words - 1)),
                 !.wr_log = IF a.width > 0 THEN Append(@, a.base_idx) ELSE @,
                 !.row_log = RowAccesses(a)]
    /\ placed' = [f \in a.base_idx .. (a.base_idx + a.width - 1) |-> Get(placed, f, 0) + 1] @@ placed

WriteAfterRow ==
    IF wr.i + 1 < RowsPerOc(wr.tr) THEN [wr EXCEPT !.i = @ + 1]
    ELSE IF wr.oc + 1 < oc_limit(wr.to) THEN [wr EXCEPT !.oc = @ + 1, !.i = 0]
    ELSE WriteGoto(AfterWriteTile(wr.tr, wr.tc, wr.to))

(* Step 2b of the direct path. *)
DirectAddr(tr, tc, to, oc, i) ==
    RowAddr(((to * TILE_OC + oc) * out_height(p) + r_start(tr) + i) * out_width(p) + c_start(tc),
            curr_w(tc))

DirectVals(tc, oc, i) == [j \in 0 .. (curr_w(tc) - 1) |-> Get(tile_buf, <<oc, i, j>>, junk)]

(* Direct write path (no pooling): one iteration of DIRECT_WR_ROW. *)
WriteDirectRow ==
    /\ top = "run" /\ wr.pc = "place" /\ ~Pooling(p)
    /\ PlaceRow(DirectAddr(wr.tr, wr.tc, wr.to, wr.oc, wr.i), DirectVals(wr.tc, wr.oc, wr.i))
    /\ wr' = WriteAfterRow
    /\ UNCHANGED <<callVars, memVars, fetVars, input_stream, weight_stream, output_stream,
                   exeVars, tile_buf, emitted>>

Max2(a, b) == IF a > b THEN a ELSE b

(* A reducer that leaves out the lower right element of each 2x2 block. *)
pool_row_of_three(tc, oc, pi) ==
    [pj \in 0 .. (pw(tc) - 1) |->
        Max2(Max2(Get(tile_buf, <<oc, pi * 2, pj * 2>>, junk),
                  Get(tile_buf, <<oc, pi * 2 + 1, pj * 2>>, junk)),
             Get(tile_buf, <<oc, pi * 2, pj * 2 + 1>>, junk))]

(* POOL_CALC: pool_row[pj]. *)
pool_row(tc, oc, pi) ==
    [pj \in 0 .. (pw(tc) - 1) |->
        LET v0 == Get(tile_buf, <<oc, pi * 2,     pj * 2>>, junk)
            v1 == Get(tile_buf, <<oc, pi * 2 + 1, pj * 2>>, junk)
            v2 == Get(tile_buf, <<oc, pi * 2,     pj * 2 + 1>>, junk)
            v3 == Get(tile_buf, <<oc, pi * 2 + 1, pj * 2 + 1>>, junk)
        IN  Max2(Max2(v0, v1), Max2(v2, v3))]

(* Step 2b of the pooled path. *)
PoolAddr(tr, tc, to, oc, pi) ==
    LET out_r == CDiv(r_start(tr), p.pool_stride) + pi
        out_c == CDiv(c_start(tc), p.pool_stride)
    IN  RowAddr(((to * TILE_OC + oc) * final_h(p) + out_r) * final_w(p) + out_c, pw(tc))

(* Pooled write path: one iteration of POOL_WR_ROW. *)
WritePoolRow ==
    /\ top = "run" /\ wr.pc = "place" /\ Pooling(p)
    /\ PlaceRow(PoolAddr(wr.tr, wr.tc, wr.to, wr.oc, wr.i), pool_row(wr.tc, wr.oc, wr.i))
    /\ wr' = WriteAfterRow
    /\ UNCHANGED <<callVars, memVars, fetVars, input_stream, weight_stream, output_stream,
                   exeVars, tile_buf, emitted>>

(* ----------------------------------------------------------------------- *)
(* The caller: allocation of the four regions (run_test of the testbench)  *)
(* ----------------------------------------------------------------------- *)
(* Contents of the slots of the input and weight regions past the tensor,  *)
(* and of the padding of the affine region.                                *)
PadBits(flat) == 21845

InputRegion(sc, k) ==
    LET pp == CallParams(sc, k)
        n  == pp.in_channels * pp.in_height * pp.in_width
    IN  [w \in 0 .. (WordsFor(n) - 1) |->
            [s \in Slots |-> IF 16 * w + s < n THEN ToBits(InputFlat(sc, k, pp, 16 * w + s))
                                               ELSE PadBits(16 * w + s)]]

WeightRegion(sc) ==
    LET n == sc.OC * sc.IC * sc.K * sc.K
    IN  [w \in 0 .. (WordsFor(n) - 1) |->
            [s \in Slots |-> IF 16 * w + s < n THEN ToBits(WeightFlat(sc, 16 * w + s))
                                               ELSE PadBits(16 * w + s)]]

(* bn_dram: 2*OC values (scale, bias alternating), padded to whole words. *)
BnRegion(sc) ==
    [i \in 0 .. (16 * WordsFor(2 * sc.OC) - 1) |->
        IF i < 2 * sc.OC THEN PalAt(sc.bnpal, i) ELSE PadBits(i)]

(* The output region: the tensor rounded up to whole words, and one more   *)
(* word behind it.                                                         *)
OutputRegion(pp) ==
    LET n == pp.out_channels * final_h(pp) * final_w(pp)
    IN  [w \in 0 .. WordsFor(n) |-> [s \in Slots |-> OutInitBits(16 * w + s)]]

JunkVal(k) == ((k * 23456 + 65535) % 65536) - 32768

JunkVals == { JunkVal(k) : k \in 0 .. MaxJunk }

(* The out-of-range accesses of LOAD_PSUM/SAVE_PSUM exist only when the    *)
(* call has more than one IC tile and the build has TILE_H /= 16 or the    *)
(* call has more than MAX_OC_STEPS OC tiles.                               *)
UbChoices(pp, tl) ==
    IF /\ pp.in_channels > tl.TILE_IC
       /\ (tl.TILE_H /= 16 \/ Steps(pp.out_channels, tl.TILE_OC) > MAX_OC_STEPS)
    THEN {"alias", "drop"} ELSE {"alias"}

(* conv_dataflow starts the three stages; a loop nest with a trip count of *)
(* zero is over at once.                                                   *)
HasTiles(pp, tl) ==
    /\ Steps(out_height(pp), tl.TILE_H) > 0
    /\ Steps(out_width(pp), tl.TILE_W) > 0

StartFetch(pp, tl) ==
    [pc |-> IF HasTiles(pp, tl) /\ Steps(pp.in_channels, tl.TILE_IC) > 0 THEN "fill" ELSE "done",
     tr |-> 0, tc |-> 0, ti |-> 0, to |-> 0, n |-> 0]

StartExec(pp, tl) ==
    [pc |-> IF HasTiles(pp, tl) /\ Steps(pp.in_channels, tl.TILE_IC) > 0 THEN "load_in" ELSE "done",
     tr |-> 0, tc |-> 0, ti |-> 0, to |-> 0, n |-> 0]

StartWrite(pp, tl) ==
    [pc |-> IF HasTiles(pp, tl) /\ Steps(pp.out_channels, tl.TILE_OC) > 0 THEN "rd_stream" ELSE "done",
     tr |-> 0, tc |-> 0, to |-> 0, n |-> 0, oc |-> 0, i |-> 0]

IdleStage == [pc |-> "idle", tr |-> 0, tc |-> 0, ti |-> 0, to |-> 0, n |-> 0]
IdleWrite == [pc |-> "idle", tr |-> 0, tc |-> 0, to |-> 0, n |-> 0, oc |-> 0, i |-> 0]

(* mem.wr_log: the flat index of the first element of each burst written  *)
(* to the output region, in the order of the bursts (a pooled row of no    *)
(* element has no first element and is not in it); mem.fet_log: the      *)
(* fills and weight loads of Fetch_Layer in their order; mem.wt_sent,      *)
(* mem.wt_recv, mem.in_recv: per loop position <<tr, tc, ti, to>> of the   *)
(* stage, the number of weight_stream.write, weight_stream.read and        *)
(* input_stream.read executed there; mem.saved: per <<tr, tc, to>> the IC  *)
(* tile and the accumulators of the last SAVE_PSUM; mem.in_w, mem.in_r,    *)
(* mem.wt_w, mem.wt_r, mem.out_w, mem.out_r: the number of write() and     *)
(* read() executed on input_stream, weight_stream and output_stream;       *)
(* mem.row_log: the output_dram accesses of the last row placement, in     *)
(* program order.                                                          *)
NoMem == [in_rd |-> {}, wt_rd |-> {}, bn_rd |-> {}, out_rd |-> {}, out_wr |-> {},
          wr_log |-> <<>>, fet_log |-> <<>>,
          wt_sent |-> Empty, wt_recv |-> Empty, in_recv |-> Empty, saved |-> Empty,
          in_w |-> 0, in_r |-> 0, wt_w |-> 0, wt_r |-> 0, out_w |-> 0, out_r |-> 0,
          row_log |-> <<>>]

(* What the caller sees (and the histories) when a call returns. *)
Finished(pp, tl, jk, rejected, out0, out, m, pl, em) ==
    [p |-> pp, tile |-> tl, junk |-> jk, rejected |-> rejected, out0 |-> out0, out |-> out,
     mem |-> m, placed |-> pl, emitted |-> em]

(* conv_engine is called: K > K_MAX returns at once, otherwise the output  *)
(* dimensions are computed and conv_dataflow starts.  The on-chip arrays   *)
(* keep what the previous call left in them.                               *)
Call ==
    /\ top \in {"idle", "returned"}
    /\ call < NCalls(scen)
    /\ LET k  == call + 1
           pp == CallParams(scen, k)
           tl == CallTile(scen, k)
           out0 == OutputRegion(pp)
       IN  /\ call' = k
           /\ p' = pp
           /\ tile' = tl
           /\ \E jk \in JunkVals :
                 /\ junk' = jk
                 /\ IF Rejects(pp)
                    THEN /\ top' = "returned"
                         /\ fet' = IdleStage /\ exe' = IdleStage /\ wr' = IdleWrite
                         /\ res' = Append(res, Finished(pp, tl, jk, TRUE, out0, out0, NoMem, Empty, Empty))
                    ELSE /\ top' = "run"
                         /\ fet' = StartFetch(pp, tl)
                         /\ exe' = StartExec(pp, tl)
                         /\ wr' = StartWrite(pp, tl)
                         /\ res' = res
           /\ ub' \in UbChoices(pp, tl)
           /\ input_dram' = InputRegion(scen, k)
           /\ weights_dram' = WeightRegion(scen)
           /\ bn_params_dram' = BnRegion(scen)
           /\ output_dram' = out0
           /\ mem' = NoMem
           /\ placed' = Empty
           /\ emitted' = Empty
    /\ UNCHANGED <<scen, input_cache, weight_cache, input_stream, weight_stream, output_stream,
                   input_lcl, wt_buf, acc_buf, psum_buf, scale_buf, bias_buf, tile_buf, kern, drv>>

(* conv_dataflow returns when the three stages have finished. *)
Return ==
    /\ top = "run"
    /\ fet.pc = "done" /\ exe.pc = "done" /\ wr.pc = "done"
    /\ top' = "returned"
    /\ res' = Append(res, Finished(p, tile, junk, FALSE, OutputRegion(p), output_dram, mem, placed, emitted))
    /\ UNCHANGED <<scen, call, p, tile, junk, ub, memVars, output_dram, fetVars,
                   input_stream, weight_stream, output_stream, exeVars, wrVars,
                   mem, placed, emitted, kern, drv>>

(* ----------------------------------------------------------------------- *)
(* The golden reference of the testbench, on the tensors of the current    *)
(* call                                                                    *)
(* ----------------------------------------------------------------------- *)
(* The accumulation loops of conv_golden for output (oc, oh, ow): the      *)
(* terms n .. IC*K*K-1 in the order ic, ky, kx, each sum saturated.        *)
RECURSIVE golden_sum(_, _, _, _, _)
golden_sum(sum, n, oc, oh, ow) ==
    IF n >= p.in_channels * KK THEN sum
    ELSE LET ic == n \div KK
             ky == (n % KK) \div p.kernel_size
             kx == n % p.kernel_size
             ih == oh * p.stride - p.padding + ky
             iw == ow * p.stride - p.padding + kx
             in_idx == (ic * p.in_height + ih) * p.in_width + iw
             wt_idx == ((oc * p.in_channels + ic) * p.kernel_size + ky) * p.kernel_size + kx
         IN  IF ih >= 0 /\ ih < p.in_height /\ iw >= 0 /\ iw < p.in_width
             THEN golden_sum(SatAddAcc(sum, MulData(unpack_element(input_dram, in_idx),
                                                    unpack_element(weights_dram, wt_idx))),
                             n + 1, oc, oh, ow)
             ELSE golden_sum(sum, n + 1, oc, oh, ow)

(* The activation of conv_golden: tmp = bn_val; (data_t)((tmp * 13) >> 7). *)
(* tmp * 13 >> 7 is bn_val * 26 in raw q16.16 units, exactly.             *)
golden_activation(bn_val, use_leaky) ==
    IF use_leaky < 0 THEN bn_val
    ELSE IF bn_val >= 0 THEN bn_val
    ELSE IF use_leaky > 0 THEN NarrowAcc(bn_val * 26)
    ELSE 0

(* conv_golden: output_flat[(oc * out_height + oh) * out_width + ow]. *)
conv_golden(oc, oh, ow) ==
    LET scale  == bn_params_dram[oc * 2]
        bias   == bn_params_dram[oc * 2 + 1]
        bn_val == NarrowProdPlusBias(golden_sum(0, 0, oc, oh, ow), scale, bias)
    IN  golden_activation(bn_val, p.use_leaky)

(* pool_golden: output_flat[(c * out_h + oh) * out_w + ow]. *)
pool_golden(input_flat, in_h, in_w, c, oh, ow) ==
    LET v0 == input_flat[(c * in_h + oh * 2) * in_w + ow * 2]
        v1 == input_flat[(c * in_h + oh * 2 + 1) * in_w + ow * 2]
        v2 == input_flat[(c * in_h + oh * 2) * in_w + ow * 2 + 1]
        v3 == input_flat[(c * in_h + oh * 2 + 1) * in_w + ow * 2 + 1]
        mx01 == IF v0 > v1 THEN v0 ELSE v1
        mx23 == IF v2 > v3 THEN v2 ELSE v3
    IN  IF mx01 > mx23 THEN mx01 ELSE mx23

(* conv_out_flat of run_test. *)
conv_out_flat ==
    [i \in 0 .. (p.out_channels * out_height(p) * out_width(p) - 1) |->
        conv_golden(i \div (out_height(p) * out_width(p)),
                    (i \div out_width(p)) % out_height(p), i % out_width(p))]

(* run_test: the tensor the output is compared with, golden_flat, and its  *)
(* dimensions.                                                             *)
tb_final_h == IF p.use_pool /= 0 THEN CDiv(out_height(p), 2) ELSE out_height(p)
tb_final_w == IF p.use_pool /= 0 THEN CDiv(out_width(p), 2) ELSE out_width(p)

golden_flat(i) ==
    LET oc  == i \div (tb_final_h * tb_final_w)
        rem == i % (tb_final_h * tb_final_w)
        oh  == rem \div tb_final_w
        ow  == rem % tb_final_w
    IN  IF p.use_pool /= 0 THEN pool_golden(conv_out_flat, out_height(p), out_width(p), oc, oh, ow)
        ELSE conv_out_flat[i]

total_elements == p.out_channels * tb_final_h * tb_final_w

(* ----------------------------------------------------------------------- *)
(* Scenarios                                                               *)
(* ----------------------------------------------------------------------- *)
T16 == Tile(16, 16, 16, 16)
T2  == Tile(2, 2, 2, 2)

(* Palettes of raw q8.8 values: activations, weights, (scale, bias) pairs. *)
XA == <<256, -128, 77, 512, -300, 25, 1000, -64, 3>>
WA == <<77, -51, 26, 0, -26, 51, -77>>
BnTB == <<256, 128>>
BnMix == <<300, -100, 77, 5>>
BnId == <<256, 0>>

Scenarios ==
    { (* kernel_size = 4 > K_MAX *)
      Scn(1, 1, 4, 4, 4, 1, 0, 0, 2, 0, T16, T16, "none", XA, WA, BnTB, FALSE),
      (* stride = 3 > MAX_STRIDE *)
      Scn(1, 1, 4, 4, 1, 3, 0, 0, 2, 0, T16, T16, "none", XA, WA, BnTB, FALSE),
      (* one product 2^-8 * (128 - 2^-8), scaled by 2^-8 *)
      Scn(1, 1, 1, 1, 1, 1, 0, 0, 2, -1, T16, T16, "none", <<1>>, <<32767>>, <<1, 0>>, FALSE),
      (* five products whose second partial sum leaves the q16.16 range *)
      Scn(5, 1, 1, 1, 1, 1, 0, 0, 2, -1, T16, T16, "none",
          <<-32768, -32768, -32768, -32768, 1>>, <<-32768, -32768, 32767, 32767, 128>>,
          BnId, FALSE),
      (* identity affine, LINEAR, 3x3 kernel with padding, four spatial tiles *)
      Scn(2, 2, 3, 3, 3, 1, 1, 0, 2, -1, T2, T2, "none", XA, WA, BnId, FALSE),
      (* the shipped tile sizes: rows of 5 elements at every slot offset, RELU *)
      Scn(1, 2, 5, 5, 1, 1, 0, 0, 2, 0, T16, T16, "none", XA, WA, BnTB, FALSE),
      (* stride 2, LEAKY, a partial OC tile and partial spatial tiles *)
      Scn(2, 3, 5, 5, 3, 2, 1, 0, 2, 1, T2, T2, "none", XA, WA, BnMix, FALSE),
      (* the FIFO depths of the STREAM pragmas *)
      Scn(1, 1, 1, 1, 1, 1, 0, 0, 2, 0, T16, T16, "none", XA, WA, BnTB, TRUE),
      (* the same call twice: two IC tiles (partial sums), a partial OC tile *)
      Scn(3, 3, 3, 3, 3, 1, 1, 0, 2, 0, Tile(16, 2, 2, 2), T2, "repeat", XA, WA, BnTB, FALSE),
      (* the same pooled LEAKY call twice *)
      Scn(2, 2, 4, 4, 1, 1, 0, 1, 2, 1, T2, T2, "repeat", XA, WA, BnMix, FALSE),
      (* padding 1 against the pre-padded input, stride 1 and stride 2 *)
      Scn(2, 2, 3, 4, 3, 1, 1, 0, 2, 0, T2, T2, "prepad", XA, WA, BnTB, FALSE),
      Scn(1, 2, 4, 4, 3, 2, 1, 0, 2, 1, T2, T2, "prepad", XA, WA, BnMix, FALSE),
      (* the shipped tile sizes against TILE_H = 2, with two IC tiles *)
      Scn(2, 26, 1, 1, 1, 1, 0, 0, 2, -1, Tile(16, 16, 16, 1), Tile(2, 1, 16, 1), "retile",
          XA, WA, BnTB, FALSE),
      (* without and with the pool: 6x6 output in tiles of 4x4, 4x2, 2x4, 2x2 *)
      Scn(1, 2, 6, 6, 1, 1, 0, 0, 2, 0, Tile(4, 4, 2, 2), T2, "pool", XA, WA, BnTB, FALSE),
      (* the same with the shipped tile sizes, K = 3, LEAKY, a partial OC tile *)
      Scn(2, 3, 4, 2, 3, 1, 1, 0, 2, 1, T16, T16, "pool", XA, WA, BnMix, FALSE),
      (* two IC tiles and MAX_OC_STEPS + 1 OC tiles *)
      Scn(2, 65, 1, 1, 1, 1, 0, 0, 2, -1, Tile(16, 16, 1, 1), T16, "none", XA, WA, BnTB, FALSE),
      (* no input channel *)
      Scn(0, 1, 1, 1, 1, 1, 0, 0, 2, 0, T16, T16, "none", XA, WA, BnTB, FALSE),
      (* without the pool and with use_pool = 1, pool_stride = 1 *)
      Scn(1, 2, 4, 3, 1, 1, 0, 0, 1, 1, T2, T2, "pool1", XA, WA, BnMix, FALSE),
      (* rows of the widest window (34 elements) starting at the last slot of  *)
      (* a word, output rows of 16 elements across a word boundary             *)
      Scn(1, 2, 1, 67, 3, 2, 1, 0, 2, 0, Tile(16, 16, 1, 1), T16, "none", XA, WA, BnTB, FALSE),
      (* weight blocks of 16 * 9 elements starting inside a word *)
      Scn(17, 2, 1, 1, 3, 1, 1, 0, 2, 0, Tile(16, 16, 1, 16), T16, "none", XA, WA, BnTB, FALSE),
      (* pooled 3x3 output in tiles of 2x2: pooled rows of no element *)
      Scn(1, 2, 3, 3, 1, 1, 0, 1, 2, 0, T2, T2, "none", XA, WA, BnTB, FALSE) }

(* No application of a kernel function. *)
KernNone == [f |-> "none", op |-> "in", a |-> 0, b |-> 0, y |-> 0, g |-> 0,
             w |-> ZeroWord, wy |-> ZeroWord]

EngineInit(S) ==
    /\ scen \in S
    /\ call = 0
    /\ top = "idle"
    /\ p = CallParams(scen, 1)
    /\ tile = CallTile(scen, 1)
    /\ junk = JunkVal(0)
    /\ ub = "alias"
    /\ input_dram = InputRegion(scen, 1)
    /\ weights_dram = WeightRegion(scen)
    /\ bn_params_dram = BnRegion(scen)
    /\ output_dram = OutputRegion(CallParams(scen, 1))
    /\ fet = IdleStage /\ exe = IdleStage /\ wr = IdleWrite
    /\ input_cache = Empty /\ weight_cache = Empty
    /\ input_stream = <<>> /\ weight_stream = <<>> /\ output_stream = <<>>
    /\ input_lcl = Empty /\ wt_buf = Empty /\ acc_buf = Empty /\ psum_buf = Empty
    /\ scale_buf = Empty /\ bias_buf = Empty /\ tile_buf = Empty
    /\ mem = NoMem /\ placed = Empty /\ emitted = Empty
    /\ res = <<>>

(* The driver before any of its functions is called: an instance that is   *)
(* not ready, an empty configuration table, registers of no device.        *)
DrvNone == [IsReady |-> 0, Control_BaseAddress |-> 0, table |-> <<>>, regs |-> <<>>,
            log |-> <<>>, ret |-> 0, fn |-> "none", stopped |-> FALSE]

Init == EngineInit(Scenarios) /\ kern = KernNone /\ drv = DrvNone

Next ==
    \/ Call
    \/ Return
    \/ FetchFill
    \/ FetchStreamIn
    \/ FetchLoadWt
    \/ FetchStreamWt
    \/ ExecLoadIn
    \/ ExecBegin
    \/ ExecReadWt
    \/ ExecCompute
    \/ ExecSave
    \/ ExecEmit
    \/ WriteRead
    \/ WriteDirectRow
    \/ WritePoolRow

Spec == Init /\ [][Next]_vars

(* ----------------------------------------------------------------------- *)
(* The fixed-point kernel on its own: the functions applied to arguments   *)
(* drawn from sample sets                                                  *)
(* ----------------------------------------------------------------------- *)
(* q16.16 raw values k * 2^8 + r around zero, around the ends of the q8.8 *)
(* range and at the ends of the q16.16 range, with every kind of           *)
(* remainder r: none, below, at and above one half of a q8.8 step.         *)
AccSamples ==
    { k * 256 + r :
        k \in {-8388608, -32770, -32769, -32768, -32767, -3, -2, -1, 0, 1, 2, 3,
               32766, 32767, 32768, 8388607},
        r \in {0, 1, 127, 128, 129, 255} }

BiasSamples == {0, 1, -256}

(* q8.8 raw values: both ends of the range and the values around zero. *)
DataSamples ==
    (DATA_MIN .. (DATA_MIN + 40)) \cup {-2560, -1280} \cup (-300 .. 300)
        \cup ((DATA_MAX - 40) .. DATA_MAX)

ModeSamples == {-2, -1, 0, 1, 2}

(* 256-bit words: all bits clear, all bits set, and a different pattern in *)
(* every lane.                                                             *)
WordSamples ==
    { ZeroWord, [s \in Slots |-> 65535], [s \in Slots |-> (4097 * s + 43981) % 65536] }

(* Elements inserted: the ends of the q8.8 range, the values around zero   *)
(* and two bit patterns.                                                   *)
ElemSamples == {DATA_MIN, -21846, -1, 0, 1, 255, 256, 21845, DATA_MAX}

KernInputs ==
    { [KernNone EXCEPT !.f = "affine", !.a = a, !.b = b] :
         a \in AccSamples, b \in BiasSamples }
    \cup { [KernNone EXCEPT !.f = "activate", !.a = x, !.b = m] :
         x \in DataSamples, m \in ModeSamples }
    \cup { [KernNone EXCEPT !.f = "pack", !.a = v, !.b = slot, !.w = w] :
         v \in ElemSamples, slot \in Slots, w \in WordSamples }

KernInit ==
    /\ EngineInit({Scn(1, 1, 1, 1, 1, 1, 0, 0, 2, 0, T16, T16, "none", XA, WA, BnTB, FALSE)})
    /\ kern \in KernInputs
    /\ drv = DrvNone

engineVars == <<scen, call, top, p, tile, junk, ub,
                input_dram, weights_dram, bn_params_dram, output_dram,
                fet, input_cache, weight_cache,
                input_stream, weight_stream, output_stream,
                exe, input_lcl, wt_buf, acc_buf, psum_buf, scale_buf, bias_buf,
                wr, tile_buf, mem, placed, emitted, res>>

(* OUT_PACK_OC: (data_t)(bn_mul + bias_buf[oc]). *)
KernAffine ==
    /\ kern.f = "affine" /\ kern.op = "in"
    /\ kern' = [kern EXCEPT !.op = "out", !.y = NarrowAccPlusBias(kern.a, kern.b)]
    /\ UNCHANGED <<engineVars, drv>>

(* activate(x, use_leaky) of the engine and the activation of conv_golden  *)
(* on the same arguments.                                                  *)
KernActivate ==
    /\ kern.f = "activate" /\ kern.op = "in"
    /\ kern' = [kern EXCEPT !.op = "out", !.y = activate(kern.a, kern.b),
                                          !.g = golden_activation(kern.a, kern.b)]
    /\ UNCHANGED <<engineVars, drv>>

(* insert_elem(word, slot, val), then extract_elem(word, slot) of the      *)
(* engine and unpack_element(dram, 16 + slot) of the testbench on a region *)
(* whose word 1 is the word.                                               *)
KernPack ==
    /\ kern.f = "pack" /\ kern.op = "in"
    /\ LET word == insert_elem(kern.w, kern.b, kern.a)
       IN  kern' = [kern EXCEPT !.op = "out", !.wy = word,
                                !.y = extract_elem(word, kern.b),
                                !.g = unpack_element([i \in 0 .. 1 |-> IF i = 1 THEN word ELSE kern.w],
                                                      16 + kern.b)]
    /\ UNCHANGED <<engineVars, drv>>

KernNext == KernAffine \/ KernActivate \/ KernPack

KernSpec == KernInit /\ [][KernNext]_vars

(* ----------------------------------------------------------------------- *)
(* The driver of the control interface (xconv_engine.c, xconv_engine.h,    *)
(* xconv_engine_sinit.c)                                                   *)
(* ----------------------------------------------------------------------- *)
XIL_COMPONENT_IS_READY == 1
XST_SUCCESS == 0
XST_DEVICE_NOT_FOUND == 2
XCONV_ENGINE_CONTROL_ADDR_AP_CTRL == 0
XCONV_ENGINE_CONTROL_ADDR_GIE == 4
XCONV_ENGINE_CONTROL_ADDR_IN_CHANNELS_DATA == 64

(* Control_BaseAddress of the entries XConv_engine_ConfigTable can hold,   *)
(* and the address an instance holds before it is initialised.             *)
DeviceBases == {4096, 8192}
StrayBase == 3 * 4096

RegOffsets == {XCONV_ENGINE_CONTROL_ADDR_AP_CTRL, XCONV_ENGINE_CONTROL_ADDR_GIE,
               XCONV_ENGINE_CONTROL_ADDR_IN_CHANNELS_DATA}

RegAddrs == { b + o : b \in DeviceBases \cup {StrayBase}, o \in RegOffsets }

(* Contents of AP_CTRL: ap_start (bit 0), ap_done (1), ap_idle (2),        *)
(* ap_ready (3), auto_restart (7), interrupt (9).                          *)
CtrlSamples == {4, 6, 132, 142}

Bit(x, n) == (x \div (2 ^ n)) % 2

(* XConv_engine_ReadReg: the 32-bit word at BaseAddress + RegOffset. *)
XConv_engine_ReadReg(d, BaseAddress, RegOffset) == d.regs[BaseAddress + RegOffset]

(* XConv_engine_WriteReg, and the record of the access: the register file  *)
(* after the write, the access appended to the accesses of the function    *)
(* being executed together with IsReady of the instance at that moment.    *)
XConv_engine_WriteReg(d, BaseAddress, RegOffset, Data) ==
    [d EXCEPT !.regs = [@ EXCEPT ![BaseAddress + RegOffset] = Data],
              !.log = Append(@, [op |-> "wr", addr |-> BaseAddress + RegOffset,
                                 val |-> Data, ready |-> d.IsReady])]

Logged(d, BaseAddress, RegOffset) ==
    [d EXCEPT !.log = Append(@, [op |-> "rd", addr |-> BaseAddress + RegOffset,
                                 val |-> XConv_engine_ReadReg(d, BaseAddress, RegOffset),
                                 ready |-> d.IsReady])]

(* Entry of a function fn of the driver. *)
Enter(d, fn) == [d EXCEPT !.log = <<>>, !.fn = fn, !.ret = 0]

(* Xil_AssertVoid / Xil_AssertNonvoid(InstancePtr->IsReady ==              *)
(* XIL_COMPONENT_IS_READY) fails: the function is left before any register *)
(* access and the program goes no further (assert() aborts; the assert     *)
(* callback of the standalone library does not return by default).         *)
Stop(d) == [d EXCEPT !.stopped = TRUE]

Checked(d) == d.IsReady = XIL_COMPONENT_IS_READY

(* XConv_engine_LookupConfig (SDT): the index of the first entry of the    *)
(* table, from Index on, that matches BaseAddress; 0 for NULL.             *)
RECURSIVE XConv_engine_LookupConfig(_, _, _)
XConv_engine_LookupConfig(table, BaseAddress, Index) ==
    IF Index > Len(table) THEN 0
    ELSE IF BaseAddress = 0 \/ table[Index] = BaseAddress THEN Index
    ELSE XConv_engine_LookupConfig(table, BaseAddress, Index + 1)

XConv_engine_CfgInitialize(d, ConfigBase) ==
    [d EXCEPT !.Control_BaseAddress = ConfigBase,
              !.IsReady = XIL_COMPONENT_IS_READY,
              !.ret = XST_SUCCESS]

XConv_engine_Initialize(d, BaseAddress) ==
    LET ConfigPtr == XConv_engine_LookupConfig(d.table, BaseAddress, 1)
    IN  IF ConfigPtr = 0
        THEN [d EXCEPT !.IsReady = 0, !.ret = XST_DEVICE_NOT_FOUND]
        ELSE XConv_engine_CfgInitialize(d, d.table[ConfigPtr])

(* A start that keeps every bit it read. *)
XConv_engine_Start_unmasked(d) ==
    LET Data == XConv_engine_ReadReg(d, d.Control_BaseAddress, XCONV_ENGINE_CONTROL_ADDR_AP_CTRL)
    IN  XConv_engine_WriteReg(Logged(d, d.Control_BaseAddress, XCONV_ENGINE_CONTROL_ADDR_AP_CTRL),
                              d.Control_BaseAddress, XCONV_ENGINE_CONTROL_ADDR_AP_CTRL,
                              IF Data % 2 = 1 THEN Data ELSE Data + 1)

(* XConv_engine_Start after its checks: Data = ReadReg(AP_CTRL) & 0x80;    *)
(* WriteReg(AP_CTRL, Data | 0x01).                                         *)
XConv_engine_Start(d) ==
    LET Data == Bit(XConv_engine_ReadReg(d, d.Control_BaseAddress, XCONV_ENGINE_CONTROL_ADDR_AP_CTRL), 7) * 128
    IN  XConv_engine_WriteReg(Logged(d, d.Control_BaseAddress, XCONV_ENGINE_CONTROL_ADDR_AP_CTRL),
                              d.Control_BaseAddress, XCONV_ENGINE_CONTROL_ADDR_AP_CTRL,
                              IF Data % 2 = 1 THEN Data ELSE Data + 1)

(* What the application may ask XConv_engine_Initialize for. *)
RequestedBases == {0, 4096, 8192, 16384}

DrvFrame == <<engineVars, kern>>

DrvInitialize ==
    /\ ~drv.stopped
    /\ \E BaseAddress \in RequestedBases :
          drv' = XConv_engine_Initialize(Enter(drv, "Initialize"), BaseAddress)
    /\ UNCHANGED DrvFrame

DrvStart ==
    /\ ~drv.stopped
    /\ drv' = IF Checked(drv) THEN XConv_engine_Start(Enter(drv, "Start"))
              ELSE Stop(Enter(drv, "Start"))
    /\ UNCHANGED DrvFrame

(* XConv_engine_IsDone: (ReadReg(AP_CTRL) >> 1) & 0x1. *)
DrvIsDone ==
    /\ ~drv.stopped
    /\ drv' = IF Checked(drv)
              THEN [Logged(Enter(drv, "IsDone"), drv.Control_BaseAddress,
                           XCONV_ENGINE_CONTROL_ADDR_AP_CTRL)
                       EXCEPT !.ret = Bit(XConv_engine_ReadReg(drv, drv.Control_BaseAddress,
                                                               XCONV_ENGINE_CONTROL_ADDR_AP_CTRL), 1)]
              ELSE Stop(Enter(drv, "IsDone"))
    /\ UNCHANGED DrvFrame

(* XConv_engine_EnableAutoRestart: WriteReg(AP_CTRL, 0x80);                *)
(* XConv_engine_DisableAutoRestart: WriteReg(AP_CTRL, 0).                  *)
DrvAutoRestart ==
    /\ ~drv.stopped
    /\ \E Data \in {128, 0} :
          LET d == Enter(drv, IF Data = 128 THEN "EnableAutoRestart" ELSE "DisableAutoRestart")
          IN  drv' = IF Checked(drv)
                     THEN XConv_engine_WriteReg(d, drv.Control_BaseAddress,
                                                XCONV_ENGINE_CONTROL_ADDR_AP_CTRL, Data)
                     ELSE Stop(d)
    /\ UNCHANGED DrvFrame

(* XConv_engine_Set_in_channels: WriteReg(IN_CHANNELS_DATA, Data). *)
DrvSet_in_channels ==
    /\ ~drv.stopped
    /\ \E Data \in {3} :
          drv' = IF Checked(drv)
                 THEN XConv_engine_WriteReg(Enter(drv, "Set_in_channels"), drv.Control_BaseAddress,
                                            XCONV_ENGINE_CONTROL_ADDR_IN_CHANNELS_DATA, Data)
                 ELSE Stop(Enter(drv, "Set_in_channels"))
    /\ UNCHANGED DrvFrame

(* XConv_engine_InterruptGlobalEnable: WriteReg(GIE, 1). *)
DrvInterruptGlobalEnable ==
    /\ ~drv.stopped
    /\ drv' = IF Checked(drv)
              THEN XConv_engine_WriteReg(Enter(drv, "InterruptGlobalEnable"), drv.Control_BaseAddress,
                                         XCONV_ENGINE_CONTROL_ADDR_GIE, 1)
              ELSE Stop(Enter(drv, "InterruptGlobalEnable"))
    /\ UNCHANGED DrvFrame

(* The device at the first base: ap_start, ap_done, ap_idle, ap_ready and  *)
(* interrupt change by themselves; auto_restart is the software's.         *)
HwStatus ==
    /\ ~drv.stopped
    /\ \E v \in CtrlSamples :
          /\ Bit(v, 7) = Bit(drv.regs[4096 + XCONV_ENGINE_CONTROL_ADDR_AP_CTRL], 7)
          /\ v /= drv.regs[4096 + XCONV_ENGINE_CONTROL_ADDR_AP_CTRL]
          /\ drv' = [drv EXCEPT !.regs[4096 + XCONV_ENGINE_CONTROL_ADDR_AP_CTRL] = v,
                                !.fn = "hw", !.log = <<>>]
    /\ UNCHANGED DrvFrame

(* The driver on its own: the instance as the application declared it      *)
(* (IsReady and Control_BaseAddress hold what the memory held), a          *)
(* configuration table of zero, one or two devices, AP_CTRL as the device  *)
(* left it.                                                                *)
DrvInputs ==
    { [DrvNone EXCEPT !.IsReady = r, !.Control_BaseAddress = StrayBase, !.table = t,
                      !.regs = [a \in RegAddrs |->
                                   IF a % 4096 = XCONV_ENGINE_CONTROL_ADDR_AP_CTRL THEN c ELSE 0]]
      : r \in {0, XIL_COMPONENT_IS_READY, 2},
        t \in {<<>>, <<4096>>, <<4096, 8192>>},
        c \in {0, 142, 654} }

DrvInit ==
    /\ EngineInit({Scn(1, 1, 1, 1, 1, 1, 0, 0, 2, 0, T16, T16, "none", XA, WA, BnTB, FALSE)})
    /\ kern = KernNone
    /\ drv \in DrvInputs

DrvNext ==
    \/ DrvInitialize \/ DrvStart \/ DrvIsDone \/ DrvAutoRestart
    \/ DrvSet_in_channels \/ DrvInterruptGlobalEnable \/ HwStatus

DrvSpec == DrvInit /\ [][DrvNext]_vars


(* The three stages of conv_dataflow run concurrently: a stage that can    *)
(* take a step eventually takes one, and conv_dataflow returns once the    *)
(* three have finished.                                                    *)
FetchStep == FetchFill \/ FetchStreamIn \/ FetchLoadWt \/ FetchStreamWt

ExecStep == ExecLoadIn \/ ExecBegin \/ ExecReadWt \/ ExecCompute \/ ExecSave \/ ExecEmit

WriteStep == WriteRead \/ WriteDirectRow \/ WritePoolRow

FairSpec ==
    /\ Spec
    /\ WF_vars(Return)
    /\ WF_vars(FetchStep) /\ WF_vars(ExecStep) /\ WF_vars(WriteStep)

(* ----------------------------------------------------------------------- *)
(* The first engine of conv_engine.cpp (OC tiles outer, IC tiles inner, no *)
(* partial-sum buffer), on the tensors of the current call                 *)
(* ----------------------------------------------------------------------- *)
(* MAC array of the first Execute_Layer: dot_prod of kernel offset         *)
(* n = ky * K + kx over the TILE_IC lanes of IC tile ti.  LOAD_IC leaves   *)
(* zero in the cache outside the input and in lanes of no channel,         *)
(* CLEAR_WT leaves zero in the weight lanes of no channel.                 *)
RECURSIVE v1_dot_prod(_, _, _, _, _, _, _)
v1_dot_prod(dot, lane, ti, n, oc, oh, ow) ==
    IF lane >= TILE_IC THEN dot
    ELSE LET ic == ti * TILE_IC + lane
             ky == n \div p.kernel_size
             kx == n % p.kernel_size
             ih == oh * p.stride - p.padding + ky
             iw == ow * p.stride - p.padding + kx
             in_val == IF ic < p.in_channels /\ ih >= 0 /\ ih < p.in_height
                          /\ iw >= 0 /\ iw < p.in_width
                       THEN unpack_element(input_dram, (ic * p.in_height + ih) * p.in_width + iw)
                       ELSE 0
             w_val  == IF ic < p.in_channels
                       THEN unpack_element(weights_dram,
                               ((oc * p.in_channels + ic) * p.kernel_size + ky) * p.kernel_size + kx)
                       ELSE 0
         IN  v1_dot_prod(SatAddAcc(dot, MulData(w_val, in_val)), lane + 1, ti, n, oc, oh, ow)

(* EXEC_IC / COMPUTE_K of the first Execute_Layer: acc_buf[oc][i][j] after *)
(* the IC tiles ti .. ti_steps-1, kernel offsets from n.                   *)
RECURSIVE v1_acc(_, _, _, _, _, _)
v1_acc(acc, ti, n, oc, oh, ow) ==
    IF ti >= ti_steps THEN acc
    ELSE IF n >= KK THEN v1_acc(acc, ti + 1, 0, oc, oh, ow)
    ELSE v1_acc(SatAddAcc(acc, v1_dot_prod(0, 0, ti, n, oc, oh, ow)), ti, n + 1, oc, oh, ow)

(* STREAM_OUT of the first Execute_Layer:                                  *)
(* activate(acc_buf * scale_buf + bias_buf, use_leaky), the exact sum      *)
(* narrowed once by the conversion to the data_t argument.                 *)
v1_res(oc, oh, ow) ==
    activate(NarrowProdPlusBias(v1_acc(0, 0, 0, oc, oh, ow),
                                bn_params_dram[oc * 2], bn_params_dram[oc * 2 + 1]),
             p.use_leaky)

(* The first Write_Layer, one row: word1 (read unless all 16 slots are     *)
(* written), then word2 when elements spill over.                          *)
v1_row(dram, base, vals, width) ==
    LET start_slot   == And15(base)
        first_word_addr == Shr4(base)
        first_count  == IF 16 - start_slot > width THEN width ELSE 16 - start_slot
        second_count == width - first_count
        word1 == [s \in Slots |->
                     IF s >= start_slot /\ s < start_slot + first_count
                     THEN ToBits(vals[s - start_slot])
                     ELSE IF first_count < 16 THEN RdWord(dram, first_word_addr)[s] ELSE 0]
        d1    == [k \in DOMAIN dram |-> IF k = first_word_addr THEN word1 ELSE dram[k]]
        word2 == [s \in Slots |->
                     IF s < second_count THEN ToBits(vals[first_count + s])
                     ELSE IF second_count < 16 THEN RdWord(d1, first_word_addr + 1)[s] ELSE 0]
    IN  IF second_count > 0
        THEN [k \in DOMAIN d1 |-> IF k = first_word_addr + 1 THEN word2 ELSE d1[k]]
        ELSE d1

(* The first Write_Layer, PHASE 2 & 3 of one tile: the region after the    *)
(* rows m .. of *_WR_OC, *_WR_H in their order.  The iterations the guard  *)
(* (oc < oc_limit && i < curr_h, or i < ph) skips are left out: row m is   *)
(* row i = m % rows of lane oc = m \div rows.                               *)
RECURSIVE v1_tile(_, _, _, _, _)
v1_tile(dram, tr, tc, to, m) ==
    LET pooled == p.use_pool /= 0 /\ p.pool_stride >= 2
        ph1    == IF CDiv(curr_h(tr), 2) > CDiv(TILE_H, 2) THEN CDiv(TILE_H, 2) ELSE CDiv(curr_h(tr), 2)
        pw1    == CDiv(curr_w(tc), 2)
        rows   == IF pooled THEN ph1 ELSE curr_h(tr)
    IN  IF rows <= 0 \/ m >= oc_limit(to) * rows THEN dram
        ELSE LET i  == m % rows
                 global_oc == to * TILE_OC + (m \div rows)
                 T(a, b) == v1_res(global_oc, r_start(tr) + a, c_start(tc) + b)
                 Mx(a, b) == IF a > b THEN a ELSE b
                 base == IF pooled
                         THEN (global_oc * CDiv(out_height(p), 2) + CDiv(r_start(tr), 2) + i)
                                  * CDiv(out_width(p), 2) + CDiv(c_start(tc), 2)
                         ELSE (global_oc * out_height(p) + r_start(tr) + i) * out_width(p)
                                  + c_start(tc)
                 vals == IF pooled
                         THEN [j \in 0 .. (pw1 - 1) |->
                                  Mx(Mx(T(i * 2, j * 2), T(i * 2 + 1, j * 2)),
                                     Mx(T(i * 2, j * 2 + 1), T(i * 2 + 1, j * 2 + 1)))]
                         ELSE [j \in 0 .. (curr_w(tc) - 1) |-> T(i, j)]
                 next == v1_row(dram, base, vals, IF pooled THEN pw1 ELSE curr_w(tc))
             IN  v1_tile(next, tr, tc, to, m + 1)

(* The first Write_Layer: the output region after the tiles t .. of the    *)
(* loops WB_ROW, WB_COL, WB_OC in their order.                             *)
RECURSIVE v1_write(_, _)
v1_write(dram, t) ==
    IF t >= tr_steps * tc_steps * to_steps THEN dram
    ELSE LET to == t % to_steps
             tc == (t \div to_steps) % tc_steps
             tr == t \div (to_steps * tc_steps)
         IN  v1_write(v1_tile(dram, tr, tc, to, 0), t + 1)

(* ----------------------------------------------------------------------- *)
(* Properties                                                              *)
(* ----------------------------------------------------------------------- *)
OnChipUntouched ==
    /\ input_cache = Empty /\ weight_cache = Empty /\ input_lcl = Empty /\ wt_buf = Empty
    /\ acc_buf = Empty /\ psum_buf = Empty /\ scale_buf = Empty /\ bias_buf = Empty
    /\ tile_buf = Empty

NoMemoryEffect ==
    /\ mem = NoMem
    /\ output_dram = OutputRegion(p)
    /\ input_stream = <<>> /\ weight_stream = <<>> /\ output_stream = <<>>
    /\ OnChipUntouched

(* C1: a call with kernel_size > K_MAX has returned without any read or    *)
(* write of the four regions and without starting a stage; the output      *)
(* region is what it was before the call.                                  *)
C1_KernelRejected ==
    (call > 0 /\ p.kernel_size > K_MAX) =>
        /\ top = "returned"
        /\ fet.pc = "idle" /\ exe.pc = "idle" /\ wr.pc = "idle"
        /\ NoMemoryEffect
        /\ Len(res) = call /\ res[call].rejected
        /\ res[call].out = res[call].out0 /\ res[call].mem = NoMem

C1_Witness ==
    /\ call = 1 /\ top = "returned" /\ p.kernel_size = K_MAX + 1
    /\ Len(res) = 1 /\ res[1].rejected

(* C2 (as stated): a call with a stride outside {1, 2} is rejected: no     *)
(* region is read or written and no on-chip buffer is indexed.             *)
C2_StrideRejected ==
    (call > 0 /\ p.stride \notin {1, 2}) =>
        /\ top = "returned"
        /\ NoMemoryEffect

(* The parameter sets the engine is specified for. *)
ValidParams(pp) ==
    /\ pp.kernel_size \in {1, 3} /\ pp.stride \in {1, 2} /\ pp.padding \in {0, 1}
    /\ pp.in_channels >= 1 /\ pp.out_channels >= 1
    /\ (pp.use_pool /= 0 => pp.pool_stride = 2)

Completed == top = "returned" /\ call > 0 /\ ~Rejects(p)

(* C3 (as stated): after a call with valid parameters completes, every     *)
(* output element equals bit for bit the element of the golden reference   *)
(* (conv_golden, then pool_golden when pooling).                           *)
C3_BitExactGolden ==
    (Completed /\ ValidParams(p)) =>
        \A i \in 0 .. (total_elements - 1) : unpack_element(output_dram, i) = golden_flat(i)

(* C4: the second of two calls with the same arguments, regions and        *)
(* initial output leaves the output region the first call left, whatever   *)
(* the interleaving of the stages and whatever the on-chip buffers held.   *)
C4_Determinism ==
    (scen.rel = "repeat" /\ Len(res) = 2) =>
        /\ res[2].p = res[1].p /\ res[2].out0 = res[1].out0
        /\ res[2].out = res[1].out

C4_Witness ==
    /\ scen.rel = "repeat" /\ Len(res) = 2
    /\ res[2].junk /= res[1].junk
    /\ psum_buf /= Empty /\ acc_buf /= Empty
    /\ res[2].out /= res[2].out0

(* Is cache position (i, j) of the tile (tr, tc) outside the input? *)
OutsideInput(tr, tc, i, j) ==
    \/ h_base(tr) + i < 0 \/ h_base(tr) + i >= p.in_height
    \/ w_base(tc) + j < 0 \/ w_base(tc) + j >= p.in_width

(* C5: padding P on the H x W input gives the output that padding 0 gives  *)
(* on the input framed by P rows and columns of zeros, and a position      *)
(* outside the input is held as zero in the cache the products read.       *)
C5_Padding ==
    /\ (scen.rel = "prepad" /\ Len(res) = 2) =>
          /\ res[2].p.padding = 0 /\ res[2].p.in_height = res[1].p.in_height + 2 * res[1].p.padding
          /\ res[2].out = res[1].out
    /\ (top = "run" /\ fet.pc = "stream_in") =>
          \A k \in FillKeys(fet.tr, fet.tc) :
              OutsideInput(fet.tr, fet.tc, k[2], k[3]) => input_cache[k] = 0

C5_Witness ==
    /\ scen.rel = "prepad" /\ Len(res) = 2
    /\ res[1].p.padding = 1 /\ res[2].p.padding = 0
    /\ res[2].out /= res[2].out0

(* C6 (as stated): the output tensor is the same for every choice of the   *)
(* tile sizes: the second call, made by a build with other tile sizes on   *)
(* the same regions, leaves the output the first call left.                *)
C6_Decomposable ==
    (scen.rel = "retile" /\ Len(res) = 2) =>
        /\ res[2].p = res[1].p /\ res[2].out0 = res[1].out0
        /\ res[2].out = res[1].out

(* The products of output (oc, oh, ow) for the terms n .. IC*K*K-1, zero   *)
(* outside the input, summed without a width: <<sum div 2^16, sum mod      *)
(* 2^16 (not normalised)>>, and the sum of their magnitudes (capped).      *)
Term(n, oc, oh, ow) ==
    LET ic == n \div KK
        ky == (n % KK) \div p.kernel_size
        kx == n % p.kernel_size
        ih == oh * p.stride - p.padding + ky
        iw == ow * p.stride - p.padding + kx
    IN  IF ih >= 0 /\ ih < p.in_height /\ iw >= 0 /\ iw < p.in_width
        THEN unpack_element(weights_dram, ((oc * p.in_channels + ic) * p.kernel_size + ky) * p.kernel_size + kx)
             * unpack_element(input_dram, (ic * p.in_height + ih) * p.in_width + iw)
        ELSE 0

RECURSIVE ExactSum(_, _, _, _, _)
ExactSum(hl, n, oc, oh, ow) ==
    IF n >= p.in_channels * KK THEN hl
    ELSE LET t == Term(n, oc, oh, ow)
         IN  ExactSum(<<hl[1] + (t \div 65536), hl[2] + (t % 65536)>>, n + 1, oc, oh, ow)

RECURSIVE MagnitudeSum(_, _, _, _, _)
MagnitudeSum(m, n, oc, oh, ow) ==
    IF n >= p.in_channels * KK THEN m
    ELSE MagnitudeSum(SatAddAcc(m, Abs(Term(n, oc, oh, ow))), n + 1, oc, oh, ow)

(* narrow() of the unbounded sum: round half up to 8 fraction bits, clamp. *)
NarrowExact(hl) == SatData(hl[1] * 256 + ((hl[2] + 128) \div 256))

IdentityAffine ==
    /\ p.use_leaky < 0 /\ p.use_pool = 0
    /\ \A oc \in 0 .. (p.out_channels - 1) :
          bn_params_dram[2 * oc] = 256 /\ bn_params_dram[2 * oc + 1] = 0

OutputIsNarrowedSum(oc, oh, ow) ==
    unpack_element(output_dram, (oc * out_height(p) + oh) * out_width(p) + ow)
        = NarrowExact(ExactSum(<<0, 0>>, 0, oc, oh, ow))

OutputPositions ==
    (0 .. (p.out_channels - 1)) \X (0 .. (out_height(p) - 1)) \X (0 .. (out_width(p) - 1))

RowBase ==
    LET global_oc == wr.to * TILE_OC + wr.oc
    IN  IF Pooling(p)
        THEN (global_oc * CDiv(out_height(p), 2) + CDiv(r_start(wr.tr), 2) + wr.i)
                 * CDiv(out_width(p), 2) + CDiv(c_start(wr.tc), 2)
        ELSE (global_oc * out_height(p) + r_start(wr.tr) + wr.i) * out_width(p) + c_start(wr.tc)

RowWidth == IF Pooling(p) THEN CDiv(curr_w(wr.tc), 2) ELSE curr_w(wr.tc)

(* C8: a row placement (direct or pooled) changes no slot outside          *)
(* [base, base + width): every other slot of the output region, those of   *)
(* the words it writes included, holds what it held before, and the words  *)
(* it writes are those of the row.                                         *)
C8_WriteEdge ==
    [][ (top = "run" /\ wr.pc = "place" /\ wr' /= wr) =>
          /\ \A w \in DOMAIN output_dram : \A s \in Slots :
                (16 * w + s < RowBase \/ 16 * w + s >= RowBase + RowWidth)
                    => output_dram'[w][s] = output_dram[w][s]
          /\ mem'.out_wr \ mem.out_wr \subseteq Shr4(RowBase) .. Shr4(RowBase + RowWidth - 1)
          /\ DOMAIN placed' = DOMAIN placed \cup (RowBase .. (RowBase + RowWidth - 1)) ]_vars

(* A pooled call after a direct call that read edge words: an edge word    *)
(* was read and holds a placed element beside a slot not yet placed.       *)
C8_Witness ==
    /\ top = "run" /\ Pooling(p)
    /\ Len(res) = 1 /\ res[1].mem.out_rd /= {}
    /\ \E w \in mem.out_rd : \E s1, s2 \in Slots :
          /\ (16 * w + s1) \in DOMAIN placed
          /\ (16 * w + s2) \notin DOMAIN placed
          /\ output_dram[w][s2] = OutInitBits(16 * w + s2)
          /\ output_dram[w][s1] /= OutInitBits(16 * w + s1)

(* C9: with use_pool = 1, pool_stride = 2 and OH, OW even, element         *)
(* (oc, r, c) of the output, at flat index (oc*(OH/2) + r)*(OW/2) + c, is  *)
(* pool_golden of the output the engine leaves for the same call with      *)
(* use_pool = 0.                                                           *)
C9_PoolEquivalence ==
    (scen.rel = "pool" /\ Len(res) = 2 /\ out_height(p) % 2 = 0 /\ out_width(p) % 2 = 0) =>
        LET OH == out_height(p)
            OW == out_width(p)
            unpooled == [i \in 0 .. (p.out_channels * OH * OW - 1) |-> unpack_element(res[1].out, i)]
        IN  /\ res[1].p.use_pool = 0 /\ res[2].p.use_pool = 1 /\ res[2].p.pool_stride = 2
            /\ \A k \in (0 .. (p.out_channels - 1)) \X (0 .. ((OH \div 2) - 1)) \X (0 .. ((OW \div 2) - 1)) :
                  unpack_element(res[2].out, (k[1] * (OH \div 2) + k[2]) * (OW \div 2) + k[3])
                      = pool_golden(unpooled, OH, OW, k[1], k[2], k[3])

(* Both calls done, the output tiled with partial edge tiles. *)
C9_Witness ==
    /\ scen.rel = "pool" /\ Len(res) = 2
    /\ out_height(p) % 2 = 0 /\ out_width(p) % 2 = 0
    /\ out_height(p) % TILE_H /= 0 /\ out_height(p) > TILE_H
    /\ out_width(p) % TILE_W /= 0 /\ out_width(p) > TILE_W
    /\ res[2].out /= res[2].out0

(* C10: in an accepted no-pool call no element is placed twice, none at a  *)
(* flat index >= OC*OH*OW (none for a channel >= OC), no slot at such an   *)
(* index changes, and when the call returns every element (oc, r, c) has   *)
(* been placed, at slot flat & 15 of word flat >> 4, flat = (oc*OH+r)*OW+c,*)
(* where it holds what Execute emitted for (oc, r, c).                     *)
C10_OutputPlacement ==
    (call > 0 /\ top /= "idle" /\ ~Rejects(p) /\ ~Pooling(p)) =>
        LET n == p.out_channels * out_height(p) * out_width(p)
        IN  /\ \A f \in DOMAIN placed : f >= 0 /\ f < n /\ placed[f] = 1
            /\ \A w \in DOMAIN output_dram : \A s \in Slots :
                  (16 * w + s >= n \/ (16 * w + s) \notin DOMAIN placed)
                      => output_dram[w][s] = OutInitBits(16 * w + s)
            /\ top = "returned" =>
                  \A k \in OutputPositions :
                      LET flat == (k[1] * out_height(p) + k[2]) * out_width(p) + k[3]
                      IN  /\ flat \in DOMAIN placed
                          /\ k \in DOMAIN emitted
                          /\ output_dram[Shr4(flat)][And15(flat)] = emitted[k]

(* A returned call whose last OC tile is partial and whose tensor ends     *)
(* inside a word.                                                          *)
C10_Witness ==
    /\ Completed /\ ~Pooling(p)
    /\ p.out_channels % TILE_OC /= 0 /\ p.out_channels > TILE_OC
    /\ (p.out_channels * out_height(p) * out_width(p)) % 16 /= 0
    /\ Cardinality(DOMAIN placed) = p.out_channels * out_height(p) * out_width(p)

(* C11 (as stated): every call that passes the parameter check returns:    *)
(* with the stages scheduled fairly, Fetch, Execute and Write all finish.  *)
C11_Termination == (top = "run") ~> (top = "returned")

(* The output row a burst starting at flat index base belongs to, decoded  *)
(* from the tensor layout alone: its tile (tr, tc, to), channel and row.   *)
RowOfBurst(base) ==
    LET fh == final_h(p)
        fw == final_w(p)
        oc == base \div (fh * fw)
        r  == (base \div fw) % fh
        c  == base % fw
        th == IF Pooling(p) THEN TILE_H \div p.pool_stride ELSE TILE_H
        tw == IF Pooling(p) THEN TILE_W \div p.pool_stride ELSE TILE_W
    IN  [tr |-> r \div th, tc |-> c \div tw, to |-> oc \div TILE_OC, oc |-> oc, r |-> r]

SameTile(a, b) == a.tr = b.tr /\ a.tc = b.tc /\ a.to = b.to

TileBefore(a, b) ==
    \/ a.tr < b.tr
    \/ a.tr = b.tr /\ a.tc < b.tc
    \/ a.tr = b.tr /\ a.tc = b.tc /\ a.to < b.to

(* C12: of two bursts written to the output region in one call, the        *)
(* earlier one belongs to the same or an earlier tile in the order         *)
(* (tr, tc, to), and within a tile the rows of a channel are written with  *)
(* increasing row index.                                                   *)
C12_WriteOrdering ==
    LET rows == [n \in 1 .. Len(mem.wr_log) |-> RowOfBurst(mem.wr_log[n])]
    IN  \A m \in DOMAIN rows : \A n \in (m + 1) .. Len(mem.wr_log) :
            /\ SameTile(rows[m], rows[n]) \/ TileBefore(rows[m], rows[n])
            /\ (SameTile(rows[m], rows[n]) /\ rows[m].oc = rows[n].oc) => rows[m].r < rows[n].r

(* A returned call with several row, column and OC tiles and several rows  *)
(* per tile, all written.                                                  *)
C12_Witness ==
    /\ Completed /\ tr_steps > 1 /\ tc_steps > 1 /\ to_steps > 1 /\ TILE_H > 1
    /\ Len(mem.wr_log) = p.out_channels * final_h(p) * tc_steps
    /\ \E m, n \in 1 .. Len(mem.wr_log) :
          /\ m < n /\ mem.wr_log[n] < mem.wr_log[m]

Fills(log) == { n \in 1 .. Len(log) : log[n].ev = "fill" }

SameIcTile(a, b) == a.tr = b.tr /\ a.tc = b.tc /\ a.ti = b.ti

(* C13: no (tr, tc, ti) is filled twice; the input region is read by the   *)
(* fills only; every weight load comes after the fill of its (tr, tc, ti)  *)
(* with no other fill in between (what precedes a weight load is the fill  *)
(* or a weight load of the same (tr, tc, ti)); and when the call returns   *)
(* there has been one fill per (tr, tc, ti): tr_steps * tc_steps *         *)
(* ti_steps fills.                                                         *)
C13_IcOuterReuse ==
    LET log == mem.fet_log
    IN  /\ \A m, n \in Fills(log) : SameIcTile(log[m], log[n]) => m = n
        /\ (mem.in_rd /= {}) => Fills(log) /= {}
        /\ \A n \in 1 .. Len(log) :
              log[n].ev = "wt" => (n > 1 /\ SameIcTile(log[n - 1], log[n]))
        /\ Completed =>
              /\ Cardinality(Fills(log)) = tr_steps * tc_steps * ti_steps
              /\ { <<log[n].tr, log[n].tc, log[n].ti>> : n \in Fills(log) }
                     = (0 .. (tr_steps - 1)) \X (0 .. (tc_steps - 1)) \X (0 .. (ti_steps - 1))

(* A returned call with several IC tiles and several OC tiles: fewer fills *)
(* than weight loads.                                                      *)
C13_Witness ==
    /\ Completed /\ ti_steps > 1 /\ to_steps > 1 /\ tc_steps > 1
    /\ Cardinality(Fills(mem.fet_log)) = tr_steps * tc_steps * ti_steps
    /\ Len(mem.fet_log) = tr_steps * tc_steps * ti_steps * (1 + to_steps)

(* The loop positions (tr, tc, ti, to) of a call. *)
Phases ==
    (0 .. (tr_steps - 1)) \X (0 .. (tc_steps - 1)) \X (0 .. (ti_steps - 1)) \X (0 .. (to_steps - 1))

FetchIsAt(k) == top = "run" /\ fet.pc /= "done" /\ <<fet.tr, fet.tc, fet.ti, fet.to>> = k

ExecIsAt(k) == top = "run" /\ exe.pc /= "done" /\ <<exe.tr, exe.tc, exe.ti, exe.to>> = k

(* C14: for every (tr, tc, ti, to) Fetch writes TILE_OC * K^2 words to the *)
(* weight stream, whether or not the OC tile is partial, and Execute reads *)
(* that many: a count never exceeds it, Execute has read no more than      *)
(* Fetch has written, a position the stage has left has the full count,    *)
(* and so has every position when the call returns.                        *)
C14_WeightWords ==
    (call > 0 /\ ~Rejects(p)) =>
        /\ DOMAIN mem.wt_recv \subseteq DOMAIN mem.wt_sent
        /\ DOMAIN mem.wt_sent \subseteq Phases
        /\ \A k \in DOMAIN mem.wt_sent :
              /\ mem.wt_sent[k] <= TILE_OC * p.kernel_size * p.kernel_size
              /\ Get(mem.wt_recv, k, 0) <= mem.wt_sent[k]
              /\ ~FetchIsAt(k) => mem.wt_sent[k] = TILE_OC * p.kernel_size * p.kernel_size
              /\ (k \in DOMAIN mem.wt_recv /\ ~ExecIsAt(k))
                     => mem.wt_recv[k] = TILE_OC * p.kernel_size * p.kernel_size
        /\ top = "returned" =>
              \A k \in Phases :
                  /\ Get(mem.wt_sent, k, 0) = TILE_OC * p.kernel_size * p.kernel_size
                  /\ Get(mem.wt_recv, k, 0) = TILE_OC * p.kernel_size * p.kernel_size

(* A returned call with a 3x3 kernel whose last OC tile is partial. *)
C14_Witness ==
    /\ Completed /\ p.kernel_size = 3
    /\ to_steps > 1 /\ oc_valid(to_steps - 1) < TILE_OC
    /\ mem.wt_recv[<<0, 0, 0, to_steps - 1>>] = TILE_OC * 9

RECURSIVE RefDot(_, _, _, _, _, _, _)
RefDot(dot, lane, ti, n, oc, oh, ow) ==
    IF lane >= TILE_IC THEN dot
    ELSE LET ic == ti * TILE_IC + lane
             t  == IF ic < p.in_channels THEN Term(ic * KK + n, oc, oh, ow) ELSE 0
         IN  RefDot(SatAddAcc(dot, t), lane + 1, ti, n, oc, oh, ow)

RECURSIVE RefTile(_, _, _, _, _, _)
RefTile(acc, n, ti, oc, oh, ow) ==
    IF n >= KK THEN acc
    ELSE RefTile(SatAddAcc(acc, RefDot(0, 0, ti, n, oc, oh, ow)), n + 1, ti, oc, oh, ow)

RECURSIVE RefAcc(_, _, _, _, _, _)
RefAcc(acc, ti, upto, oc, oh, ow) ==
    IF ti > upto THEN acc
    ELSE RefAcc(RefTile(acc, 0, ti, oc, oh, ow), ti + 1, upto, oc, oh, ow)

AccKeys == (0 .. (TILE_OC - 1)) \X (0 .. (curr_h(exe.tr) - 1)) \X (0 .. (curr_w(exe.tc) - 1))

(* The head of EXEC_OC has run: the accumulator is cleared or loaded. *)
AccReady == top = "run" /\ exe.pc = "oc_begin" /\ exe'.pc = "read_wt"

PsumLifecycle ==
    /\ AccReady =>
          IF exe.ti = 0
          THEN \A k \in AccKeys : k \in DOMAIN acc_buf' /\ acc_buf'[k] = 0
          ELSE /\ <<exe.tr, exe.tc, exe.to>> \in DOMAIN mem.saved
               /\ mem.saved[<<exe.tr, exe.tc, exe.to>>].ti = exe.ti - 1
               /\ \A k \in AccKeys :
                     /\ k \in DOMAIN acc_buf'
                     /\ acc_buf'[k] = mem.saved[<<exe.tr, exe.tc, exe.to>>].acc[k]
    /\ (top = "run" /\ psum_buf' /= psum_buf) => exe.ti < ti_steps - 1
    /\ (top = "run" /\ Len(output_stream') > Len(output_stream)) =>
          /\ exe.ti = ti_steps - 1
          /\ \A k \in AccKeys :
                k[1] < oc_valid(exe.to) =>
                    Get(acc_buf, k, JunkAcc)
                       = RefAcc(0, 0, ti_steps - 1, oc_base(exe.to) + k[1],
                                r_start(exe.tr) + k[2], c_start(exe.tc) + k[3])

(* C16 (as stated): at ti = 0 the accumulators of the tile are zero before *)
(* the first MAC; at ti > 0 the accumulators loaded are those saved for    *)
(* the same (tr, tc, to) at ti - 1; partial sums are saved only before the *)
(* last IC tile and output is emitted only on the last, from accumulators  *)
(* that hold the sum of all IC tiles in increasing ti order; in every     *)
(* call of a build with the TILE_H of conv_engine.h.                       *)
C16_PsumLifecycle == [][TILE_H = 16 => PsumLifecycle]_vars

(* 2 * OC rounded up to the next multiple of 16: the affine region with    *)
(* its padding to a 256-bit word.                                          *)
AffinePadded(oc) == 16 * ((2 * oc + 15) \div 16)

(* C17 (as stated): every index of the affine region that Execute reads is *)
(* below 2 * OC rounded up to the next multiple of 16, for every OC >= 1.  *)
C17_AffineReadBound ==
    (call > 0 /\ ~Rejects(p) /\ p.out_channels >= 1) =>
        \A idx \in mem.bn_rd : idx >= 0 /\ idx < AffinePadded(p.out_channels)

(* Is the q8.8 value n nearest to the value (256 * q + r) / 2^16, r in     *)
(* 0..255, with a tie going to the even neighbour / to the upper one?      *)
NearestTiesEven(n, q, r) ==
    LET d == 256 * (q - n) + r
    IN  (d > -128 /\ d < 128) \/ (Abs(d) = 128 /\ n % 2 = 0)

NearestTiesUp(n, q, r) ==
    LET d == 256 * (q - n) + r
    IN  d >= -128 /\ d < 128

(* The narrowing applied in state kern: the q16.16 value converted, as     *)
(* <<q, r>> with value (256 * q + r) / 2^16: bn_mul + bias in OUT_PACK_OC, *)
(* (x * 13) >> 7 = x * 26 / 2^16 in the LEAKY branch of activate.          *)
Narrowed ==
    IF kern.f = "affine" THEN <<(kern.a \div 256) + kern.b, kern.a % 256>>
    ELSE <<(kern.a * 26) \div 256, (kern.a * 26) % 256>>

IsNarrowing ==
    /\ kern.op = "out"
    /\ kern.f = "affine" \/ (kern.f = "activate" /\ kern.b > 0 /\ kern.a < 0)

Clamp(n) == IF n > DATA_MAX THEN DATA_MAX ELSE IF n < DATA_MIN THEN DATA_MIN ELSE n

IsActivation == kern.op = "out" /\ kern.f = "activate"

ActivateModes ==
    /\ kern.y = kern.g
    /\ kern.b < 0 => kern.y = kern.a
    /\ (kern.b >= 0 /\ kern.a >= 0) => kern.y = kern.a
    /\ (kern.b = 0 /\ kern.a < 0) => kern.y = 0

C20_CacheFill ==
    (top = "run" /\ fet.pc \in {"stream_in", "load_wt", "stream_wt"}) =>
        \A k \in FillKeys(fet.tr, fet.tc) :
            LET ic == ic_base(fet.ti) + k[1]
                r  == h_base(fet.tr) + k[2]
                c  == w_base(fet.tc) + k[3]
            IN  /\ k \in DOMAIN input_cache
                /\ input_cache[k] =
                      IF ic < p.in_channels /\ r >= 0 /\ r < p.in_height /\ c >= 0 /\ c < p.in_width
                      THEN unpack_element(input_dram, (ic * p.in_height + r) * p.in_width + c)
                      ELSE 0

(* After the fill of a later IC tile whose last lane is of no channel, in  *)
(* a padded tile: the lane is zero although the fill before wrote input    *)
(* values to it, and the window holds input values.                        *)
C20_Witness ==
    /\ top = "run" /\ fet.pc = "stream_in"
    /\ fet.ti > 0 /\ ic_valid(fet.ti) < TILE_IC /\ p.padding > 0 /\ fet.tc > 0
    /\ \A k \in FillKeys(fet.tr, fet.tc) : k[1] >= ic_valid(fet.ti) => input_cache[k] = 0
    /\ \E k \in FillKeys(fet.tr, fet.tc) : input_cache[k] /= 0

(* An index triple inside input_cache[TILE_IC][CACHE_H][CACHE_W]. *)
InCacheBounds(k) ==
    /\ k[1] >= 0 /\ k[1] < TILE_IC
    /\ k[2] >= 0 /\ k[2] < CACHE_H
    /\ k[3] >= 0 /\ k[3] < CACHE_W

(* The entries of input_cache the streaming loop reads for the word it     *)
(* writes next.                                                            *)
StreamKeys ==
    LET pos == InPos(fet.n, fet.tr, fet.tc)
    IN  { <<ic, pos.i * p.stride + pos.ky, pos.j * p.stride + pos.kx>> : ic \in 0 .. (TILE_IC - 1) }

(* C21: in a call with K <= 3, S in {1, 2}, P in {0, 1} every entry of     *)
(* input_cache the fill writes and every entry the streaming loop reads    *)
(* has its row in [0, CACHE_H) and its column in [0, CACHE_W), every       *)
(* streamed position lies in the window cleared and filled for the tile,   *)
(* and every word read from the input region has its index in              *)
(* [0, ceil(IC*H*W / 16)).                                                 *)
C21_InputIndexing ==
    (call > 0 /\ ~Rejects(p) /\ p.stride \in {1, 2} /\ p.padding \in {0, 1}) =>
        /\ (top = "run" /\ fet.pc \in {"fill", "stream_in"}) =>
              \A k \in FillKeys(fet.tr, fet.tc) : InCacheBounds(k)
        /\ (top = "run" /\ fet.pc = "stream_in") =>
              \A k \in StreamKeys :
                  /\ InCacheBounds(k)
                  /\ k \in FillKeys(fet.tr, fet.tc)
                  /\ k \in DOMAIN input_cache
        /\ \A w \in mem.in_rd :
              w >= 0 /\ w < (p.in_channels * p.in_height * p.in_width + 15) \div 16

(* Stride 2, a 3x3 kernel and padding: the streaming loop reads the last   *)
(* row but one of the cache, the fill wrote the last one, and the fill     *)
(* read the last word of the input region.                                 *)
C21_Witness ==
    /\ top = "run" /\ fet.pc = "stream_in" /\ p.stride = 2 /\ p.kernel_size = 3 /\ p.padding = 1
    /\ \E k \in StreamKeys : k[2] = CACHE_H - 2 /\ k[3] = CACHE_W - 2
    /\ \E k \in FillKeys(fet.tr, fet.tc) : k[2] = CACHE_H - 1 /\ k[3] = CACHE_W - 1
    /\ ((p.in_channels * p.in_height * p.in_width + 15) \div 16) - 1 \in mem.in_rd

(* C22 (as stated): Execute writes to the output stream only on the last   *)
(* IC tile, one word per (i, j) of the tile in row-major order, and lane   *)
(* oc of the word is activate(narrow(acc * scale + bias), mode) with       *)
(* scale, bias the entries 2 * (to * TILE_OC + oc) and the next one of the *)
(* affine region and acc * scale + bias formed exactly and narrowed once,  *)
(* as (data_t)(sum * scale + bias) of conv_golden.                         *)
C22_EmitExact ==
    [][ (top = "run" /\ Len(output_stream') > Len(output_stream)) =>
          /\ exe.pc = "emit" /\ is_last_ic(exe.ti)
          /\ exe.n < curr_h(exe.tr) * curr_w(exe.tc)
          /\ LET i == exe.n \div curr_w(exe.tc)
                 j == exe.n % curr_w(exe.tc)
                 word == output_stream'[Len(output_stream')]
             IN  \A oc \in 0 .. (oc_valid(exe.to) - 1) :
                    LET scale == bn_params_dram[2 * (exe.to * TILE_OC + oc)]
                        bias  == bn_params_dram[2 * (exe.to * TILE_OC + oc) + 1]
                        acc   == Get(acc_buf, <<oc, i, j>>, JunkAcc)
                    IN  FromBits(word[oc])
                           = activate(NarrowProdPlusBias(acc, scale, bias), p.use_leaky) ]_vars

(* Bit b (0 the lowest) of a 256-bit word held as 16 lanes of 16 bits, and *)
(* bit k of the 16-bit two's-complement pattern of a q8.8 raw value.       *)
WordBit(word, b) == (word[b \div 16] \div (2 ^ (b % 16))) % 2

ElemBit(v, k) == ((v + 65536) \div (2 ^ k)) % 2

IsPacking == kern.op = "out" /\ kern.f = "pack"

(* C23: after insert_elem(w, s, v) bits [16s + 15 : 16s] of the word are   *)
(* the 16 bits of v, lowest bit first, every other bit of the word is what *)
(* it was, extract_elem(w, s) returns v, and so does unpack_element of the *)
(* testbench for the same slot.                                            *)
C23_PackingLaneLocal ==
    IsPacking =>
        /\ \A b \in 0 .. 255 :
              WordBit(kern.wy, b) =
                  IF b >= 16 * kern.b /\ b <= 16 * kern.b + 15
                  THEN ElemBit(kern.a, b - 16 * kern.b)
                  ELSE WordBit(kern.w, b)
        /\ \A s \in Slots \ {kern.b} : kern.wy[s] = kern.w[s]
        /\ kern.y = kern.a
        /\ kern.g = kern.a

(* A negative element inserted into the highest lane of a word whose other *)
(* lanes hold bits, and read back.                                         *)
C23_Witness ==
    /\ IsPacking /\ kern.b = 15 /\ kern.a = -21846
    /\ kern.y = -21846 /\ kern.wy[15] = 43690
    /\ \A s \in 0 .. 14 : kern.wy[s] = kern.w[s] /\ kern.wy[s] /= 0

RECURSIVE ValidDot(_, _, _, _, _, _)
ValidDot(dot, ic, oc, n, i, j) ==
    IF ic >= ic_valid(exe.ti) THEN dot
    ELSE LET w_idx == ((oc_base(exe.to) + oc) * p.in_channels + ic_base(exe.ti) + ic) * KK + n
             in_pkg == input_lcl[<<n \div p.kernel_size, n % p.kernel_size, i, j>>]
         IN  ValidDot(SatAddAcc(dot, MulData(unpack_element(weights_dram, w_idx), FromBits(in_pkg[ic]))),
                      ic + 1, oc, n, i, j)

RECURSIVE ValidMac(_, _, _, _, _)
ValidMac(acc, n, oc, i, j) ==
    IF n >= KK THEN acc
    ELSE ValidMac(SatAddAcc(acc, ValidDot(0, 0, oc, n, i, j)), n + 1, oc, i, j)

(* Entries of wt_buf the weight fill did not write for the current         *)
(* (ti, to): a lane oc >= oc_valid or a lane ic >= ic_valid.               *)
StaleWeights ==
    { k \in DOMAIN wt_buf : k[1] >= oc_valid(exe.to) \/ k[2] >= ic_valid(exe.ti) }

(* C25: the entries of the weight cache with oc >= oc_valid or             *)
(* ic >= ic_valid reach no output value: every input word Execute          *)
(* multiplies has zero in each lane ic with ic_base + ic >= IC, so the     *)
(* accumulators of the lanes oc < oc_valid after the MAC loops are those   *)
(* computed from the weights of the weight region and the lanes            *)
(* ic < ic_valid alone, whatever the other entries hold; and no element is *)
(* placed for a channel >= OC.                                             *)
C25_StaleWeights ==
    [][ /\ (top = "run" /\ exe.pc = "compute" /\ exe'.pc /= "compute") =>
              /\ \A q \in (0 .. (p.kernel_size - 1)) \X (0 .. (p.kernel_size - 1))
                             \X (0 .. (curr_h(exe.tr) - 1)) \X (0 .. (curr_w(exe.tc) - 1)) :
                    \A ic \in ic_valid(exe.ti) .. (TILE_IC - 1) : input_lcl[q][ic] = 0
              /\ \A k \in AccKeys :
                    k[1] < oc_valid(exe.to) =>
                        acc_buf'[k] = ValidMac(Get(acc_buf, k, JunkAcc), 0, k[1], k[2], k[3])
        /\ (top = "run" /\ placed' /= placed) =>
              \A f \in DOMAIN placed' : f < p.out_channels * final_h(p) * final_w(p) ]_vars

(* After the MAC loops of a partial IC tile and a partial OC tile: stale   *)
(* entries of both kinds hold bits, and an accumulator of a lane           *)
(* oc >= oc_valid is not zero.                                             *)
C25_Witness ==
    /\ top = "run" /\ exe.pc \in {"save", "emit"}
    /\ ic_valid(exe.ti) < TILE_IC /\ oc_valid(exe.to) < TILE_OC
    /\ \E k \in StaleWeights : k[1] < oc_valid(exe.to) /\ wt_buf[k] /= 0
    /\ \E k \in StaleWeights : k[1] >= oc_valid(exe.to) /\ k[2] < ic_valid(exe.ti) /\ wt_buf[k] /= 0
    /\ \E k \in DOMAIN acc_buf : k[1] >= oc_valid(exe.to) /\ acc_buf[k] /= 0
    /\ \E k \in DOMAIN acc_buf : k[1] < oc_valid(exe.to) /\ acc_buf[k] /= 0

(* The words (elements, for the affine region) of the regions read or      *)
(* written so far lie inside their regions.                                *)
AccessesInsideRegions(m) ==
    /\ m.in_rd \subseteq DOMAIN input_dram
    /\ m.wt_rd \subseteq DOMAIN weights_dram
    /\ m.bn_rd \subseteq DOMAIN bn_params_dram
    /\ m.out_rd \subseteq DOMAIN output_dram
    /\ m.out_wr \subseteq DOMAIN output_dram

InputSample(ic, r, c) ==
    IF ic < p.in_channels /\ r >= 0 /\ r < p.in_height /\ c >= 0 /\ c < p.in_width
    THEN unpack_element(input_dram, (ic * p.in_height + r) * p.in_width + c)
    ELSE 0

(* Is lane ic of the word the input sample of channel ic_base + ic at      *)
(* kernel offset (ky, kx) of output position (i, j) of the tile?           *)
HoldsInputAt(word, tr, tc, ti, ky, kx, i, j) ==
    \A ic \in 0 .. (TILE_IC - 1) :
        FromBits(word[ic]) = InputSample(ic_base(ti) + ic,
                                         h_base(tr) + i * p.stride + ky,
                                         w_base(tc) + j * p.stride + kx)

(* The kernel offsets and positions of a tile with their place             *)
(* ((ky*K + kx)*curr_h + i)*curr_w + j in the order ky, kx, i, j.          *)
InOrder(tr, tc) ==
    { [ky |-> q[1], kx |-> q[2], i |-> q[3], j |-> q[4],
       n |-> ((q[1] * p.kernel_size + q[2]) * curr_h(tr) + q[3]) * curr_w(tc) + q[4]] :
        q \in (0 .. (p.kernel_size - 1)) \X (0 .. (p.kernel_size - 1))
                \X (0 .. (curr_h(tr) - 1)) \X (0 .. (curr_w(tc) - 1)) }

(* Number of input words of the current tile Execute has stored. *)
InLoaded == IF exe.pc = "load_in" THEN exe.n ELSE NIn(exe.tr, exe.tc)

(* C27: the word Fetch wrote last to the input stream is the one of its    *)
(* place in the order ky, kx, i, j and holds in lane ic the input sample   *)
(* (ic_base + ic, h_base + i*S + ky, w_base + j*S + kx); the n-th word     *)
(* Execute has read is stored at input_lcl[ky][kx][i][j] of the same       *)
(* place; and when the MAC loops run, wt_buf[oc][ic][ky][kx] is weight     *)
(* (oc_base + oc, ic_base + ic, ky, kx) of the weight region for every     *)
(* existing channel pair, so that each product pairs a weight with the     *)
(* input sample of the same ic and kernel offset.                          *)
C27_StreamAgreement ==
    /\ (top = "run" /\ fet.pc = "stream_in" /\ fet.n > 0 /\ Len(input_stream) > 0) =>
          \A q \in InOrder(fet.tr, fet.tc) :
              q.n = fet.n - 1 =>
                  HoldsInputAt(input_stream[Len(input_stream)], fet.tr, fet.tc, fet.ti,
                               q.ky, q.kx, q.i, q.j)
    /\ (top = "run" /\ exe.pc /= "done") =>
          \A q \in InOrder(exe.tr, exe.tc) :
              q.n < InLoaded =>
                  /\ <<q.ky, q.kx, q.i, q.j>> \in DOMAIN input_lcl
                  /\ HoldsInputAt(input_lcl[<<q.ky, q.kx, q.i, q.j>>], exe.tr, exe.tc, exe.ti,
                                  q.ky, q.kx, q.i, q.j)
    /\ (top = "run" /\ exe.pc = "compute") =>
          \A k \in (0 .. (oc_valid(exe.to) - 1)) \X (0 .. (ic_valid(exe.ti) - 1))
                      \X (0 .. (p.kernel_size - 1)) \X (0 .. (p.kernel_size - 1)) :
              /\ k \in DOMAIN wt_buf
              /\ wt_buf[k] = unpack_element(weights_dram,
                                 (((oc_base(exe.to) + k[1]) * p.in_channels + ic_base(exe.ti) + k[2])
                                     * p.kernel_size + k[3]) * p.kernel_size + k[4])

(* The MAC loops of a later OC tile of a later column tile, 3x3 kernel,    *)
(* stride 2, several positions: the input words at kernel offsets (0, 1)   *)
(* and (1, 0) of the first position differ, and so do the weights.         *)
C27_Witness ==
    /\ top = "run" /\ exe.pc = "compute" /\ p.kernel_size = 3 /\ p.stride = 2
    /\ curr_h(exe.tr) > 1 /\ exe.tc > 0 /\ exe.to > 0
    /\ input_lcl[<<0, 1, 0, 0>>] /= input_lcl[<<1, 0, 0, 0>>]
    /\ wt_buf[<<0, 0, 0, 1>>] /= wt_buf[<<0, 0, 1, 0>>]

(* Words the loops of a stage move over a whole call: input words (K^2     *)
(* per output position and IC tile), weight words (TILE_OC * K^2 per       *)
(* (tr, tc, ti, to)), output words (one per output position and OC tile;   *)
(* Execute emits them inside its IC loop).                                 *)
HasSpatialTiles == tr_steps > 0 /\ tc_steps > 0

TotalIn == IF HasSpatialTiles THEN ti_steps * KK * out_height(p) * out_width(p) ELSE 0

TotalWt == IF HasSpatialTiles THEN tr_steps * tc_steps * ti_steps * to_steps * TILE_OC * KK ELSE 0

TotalOut == IF HasSpatialTiles THEN to_steps * out_height(p) * out_width(p) ELSE 0

TotalOutExecute == IF ti_steps > 0 THEN TotalOut ELSE 0

(* Output words before tile (tr, tc, to) in the order ROW -> COL -> OC. *)
OutBefore(tr, tc, to) ==
    to_steps * (tr * TILE_H * out_width(p) + curr_h(tr) * tc * TILE_W)
        + to * curr_h(tr) * curr_w(tc)

StagesFinished == fet.pc = "done" /\ exe.pc = "done" /\ wr.pc = "done"

(* C28: on each of the three streams the reads never exceed the writes     *)
(* (the difference is what the FIFO holds); Fetch and Execute count the    *)
(* same input and weight words and Execute and Write the same output words *)
(* tile by tile: a stage that has finished has moved the total of the      *)
(* call, and Execute and Write are at the same place of the same tile      *)
(* order when they have moved the same number of output words; and when    *)
(* the three stages have finished the totals written and read are equal    *)
(* and the three FIFOs are empty.                                          *)
C28_StreamBalance ==
    (call > 0 /\ ~Rejects(p)) =>
        /\ mem.in_r <= mem.in_w /\ mem.in_w - mem.in_r = Len(input_stream)
        /\ mem.wt_r <= mem.wt_w /\ mem.wt_w - mem.wt_r = Len(weight_stream)
        /\ mem.out_r <= mem.out_w /\ mem.out_w - mem.out_r = Len(output_stream)
        /\ mem.in_w <= TotalIn /\ mem.wt_w <= TotalWt /\ mem.out_w <= TotalOut
        /\ fet.pc = "done" => mem.in_w = TotalIn /\ mem.wt_w = TotalWt
        /\ exe.pc = "done" =>
              mem.in_r = TotalIn /\ mem.wt_r = TotalWt /\ mem.out_w = TotalOutExecute
        /\ wr.pc = "done" => mem.out_r = TotalOut
        /\ (top = "run" /\ exe.pc = "emit") =>
              mem.out_w = OutBefore(exe.tr, exe.tc, exe.to) + exe.n
        /\ (top = "run" /\ wr.pc = "rd_stream") =>
              mem.out_r = OutBefore(wr.tr, wr.tc, wr.to) + wr.n
        /\ StagesFinished =>
              /\ mem.in_w = mem.in_r /\ mem.wt_w = mem.wt_r /\ mem.out_w = mem.out_r
              /\ input_stream = <<>> /\ weight_stream = <<>> /\ output_stream = <<>>

(* A returned call with several column, OC and IC tiles, partial ones      *)
(* among them, whose words all went through the three FIFOs.               *)
C28_Witness ==
    /\ top = "returned" /\ StagesFinished /\ call > 0 /\ ~Rejects(p)
    /\ tc_steps > 1 /\ to_steps > 1 /\ ti_steps > 1
    /\ out_width(p) % TILE_W /= 0
    /\ mem.in_r = TotalIn /\ mem.wt_r = TotalWt /\ mem.out_r = TotalOut
    /\ mem.out_r > 0 /\ mem.in_r > mem.out_r

(* C29 (as stated): in every accepted call, every SAVE_PSUM executed and   *)
(* every LOAD_PSUM about to execute addresses a slot to < MAX_OC_STEPS,    *)
(* and the rows idx & 0xF and columns j < TILE_W it addresses are below    *)
(* 16.                                                                     *)
C29_PsumIndices ==
    (call > 0 /\ ~Rejects(p)) =>
        /\ \A k \in DOMAIN mem.saved : k[3] >= 0 /\ k[3] < MAX_OC_STEPS
        /\ (top = "run" /\ (exe.pc = "save" \/ (exe.pc = "oc_begin" /\ ~is_first_ic(exe.ti)))) =>
              /\ exe.to >= 0 /\ exe.to < MAX_OC_STEPS
              /\ \A idx \in 0 .. (TILE_OC * TILE_H - 1) : idx % 16 < 16
              /\ TILE_W <= 16

(* The row the Write stage places next. *)
NextRowAddr ==
    IF Pooling(p) THEN PoolAddr(wr.tr, wr.tc, wr.to, wr.oc, wr.i)
    ELSE DirectAddr(wr.tr, wr.tc, wr.to, wr.oc, wr.i)

(* C30: in a call with K <= 3 and S <= 2, every burst of an input row the  *)
(* fill makes spans 1 .. DMA_LINE_WORDS words and SCATTER_IN indexes       *)
(* dma_line inside it; every weight block of one output channel spans at   *)
(* most DMA_WT_WORDS words and UNPACK_WT indexes dma_wt inside it; every   *)
(* output row touches one or two words and PACK indexes dma_out inside     *)
(* them (and inside DMA_OUT_WORDS).                                        *)
C30_DmaStaging ==
    (call > 0 /\ ~Rejects(p) /\ p.stride <= 2 /\ top = "run") =>
        /\ fet.pc = "fill" =>
              \A k \in (0 .. (TILE_IC - 1)) \X (0 .. (tile_in_h(fet.tr) - 1)) :
                  LET row == FillRow(fet.tr, fet.tc, fet.ti, k[1], k[2])
                  IN  row.read =>
                         /\ row.n_words >= 1 /\ row.n_words <= DMA_LINE_WORDS
                         /\ \A j \in row.c_lo .. (row.c_hi - 1) :
                               LET wi == Shr4(row.row_base + w_base(fet.tc) + j) - row.first_word
                               IN  wi >= 0 /\ wi < row.n_words
        /\ fet.pc = "load_wt" =>
              \A oc \in 0 .. (oc_valid(fet.to) - 1) :
                  LET blk == WtBlock(fet.ti, fet.to, oc)
                  IN  /\ blk.nw >= 1 /\ blk.nw <= DMA_WT_WORDS
                      /\ \A e \in 0 .. (ic_valid(fet.ti) * KK - 1) :
                            LET wi == Shr4(blk.block_start + e) - blk.fw
                            IN  wi >= 0 /\ wi < blk.nw
        /\ wr.pc = "place" =>
              LET a == NextRowAddr
              IN  /\ a.width <= 16 /\ (Pooling(p) => a.width <= 8)
                  /\ a.n_words \in {1, 2} /\ a.n_words <= DMA_OUT_WORDS
                  /\ \A j \in 0 .. (a.width - 1) :
                        LET wi == Shr4(a.base_idx + j) - a.first_word
                        IN  wi >= 0 /\ wi < a.n_words

(* After the fill of a window of 34 elements whose rows start at slot 15:  *)
(* bursts of DMA_LINE_WORDS words were read.                               *)
C30_Witness ==
    /\ top = "run" /\ fet.pc = "stream_in" /\ p.stride = 2 /\ p.kernel_size = 3
    /\ tile_in_w(fet.tc) = CACHE_W /\ CACHE_W = 34
    /\ \E k \in (0 .. (TILE_IC - 1)) \X (0 .. (tile_in_h(fet.tr) - 1)) :
          LET row == FillRow(fet.tr, fet.tc, fet.ti, k[1], k[2])
          IN  /\ row.read /\ row.n_words = DMA_LINE_WORDS /\ row.c_hi - row.c_lo = 34
              /\ (row.first_word .. (row.first_word + 3)) \subseteq mem.in_rd

(* The slots of output word w that the row a covers. *)
CoveredSlots(a, w) == { s \in Slots : 16 * w + s >= a.base_idx /\ 16 * w + s < a.base_idx + a.width }

(* C31: in each row placement of the Write stage, the words read from the  *)
(* output region are exactly the touched words (first_word .. last_word)   *)
(* that the row does not cover in all 16 slots, no read follows a write,   *)
(* and the writes are first_word, first_word + 1, .. last_word in that     *)
(* order, one each.                                                        *)
C31_ReadEdge ==
    [][ (top = "run" /\ wr.pc = "place" /\ wr' /= wr) =>
          LET a   == NextRowAddr
              log == mem'.row_log
              Rd  == { k \in 1 .. Len(log) : log[k][1] = "rd" }
              Wr  == { k \in 1 .. Len(log) : log[k][1] = "wr" }
          IN  /\ { log[k][2] : k \in Rd } =
                     { w \in a.first_word .. (a.first_word + a.n_words - 1) : CoveredSlots(a, w) /= Slots }
              /\ \A k \in Rd : \A m \in Rd : k /= m => log[k][2] /= log[m][2]
              /\ \A k \in Rd : \A m \in Wr : k < m
              /\ SelectSeq(log, LAMBDA e : e[1] = "wr") =
                     [k \in 1 .. a.n_words |-> <<"wr", a.first_word + k - 1>>]
              /\ mem'.out_rd = mem.out_rd \cup { log[k][2] : k \in Rd }
              /\ mem'.out_wr = mem.out_wr \cup { log[k][2] : k \in Wr } ]_vars

(* After the placement of a row that ends inside a second word: two edge   *)
(* reads, then two writes.                                                 *)
C31_Witness ==
    /\ top = "run" /\ Len(mem.row_log) = 4
    /\ mem.row_log[1][1] = "rd" /\ mem.row_log[2][1] = "rd"
    /\ mem.row_log[3][1] = "wr" /\ mem.row_log[4][1] = "wr"
    /\ mem.row_log[2][2] = mem.row_log[1][2] + 1

(* C32: after the weight load for (ti, to) and until the next one,         *)
(* weight_cache[oc][ic][ky][kx] holds the weight element of flat index     *)
(* (((oc_base + oc) * IC + ic_base + ic) * K + ky) * K + kx for every      *)
(* oc < oc_valid, ic < ic_valid, ky, kx < K, and every word read from the  *)
(* weight region so far has an index in [0, ceil(OC * IC * K * K / 16)).   *)
C32_WeightFill ==
    (top = "run" /\ fet.pc = "stream_wt") =>
        /\ \A k \in WtKeys(fet.ti, fet.to) :
              /\ k \in DOMAIN weight_cache
              /\ weight_cache[k] =
                    unpack_element(weights_dram,
                        (((oc_base(fet.to) + k[1]) * p.in_channels + ic_base(fet.ti) + k[2])
                             * p.kernel_size + k[3]) * p.kernel_size + k[4])
        /\ \A w \in mem.wt_rd :
              w >= 0 /\ w < (p.out_channels * p.in_channels * p.kernel_size * p.kernel_size + 15) \div 16

(* After the load of a block of a later IC tile that starts inside a word  *)
(* and ends in a later word, with weights of different values.             *)
C32_Witness ==
    /\ top = "run" /\ fet.pc = "stream_wt" /\ fet.ti > 0 /\ p.kernel_size = 3
    /\ \E oc \in 0 .. (oc_valid(fet.to) - 1) :
          LET blk == WtBlock(fet.ti, fet.to, oc)
          IN  /\ And15(blk.block_start) /= 0 /\ blk.nw >= 2
              /\ (blk.fw .. (blk.fw + blk.nw - 1)) \subseteq mem.wt_rd
              /\ weight_cache[<<oc, 0, 0, 0>>] /= weight_cache[<<oc, 0, 0, 1>>]

(* C33: after a call with valid parameters completes, the output region    *)
(* is the one the first engine (OC tiles outer, no partial-sum buffer)     *)
(* leaves from the same input, weight and affine regions and the same      *)
(* initial output contents.                                                *)
C33_ScheduleEquivalence ==
    (Completed /\ ValidParams(p)) => output_dram = v1_write(OutputRegion(p), 0)

(* C34: XConv_engine_Start reads AP_CTRL and then writes it once, with     *)
(* bit 0 set, bit 7 as read and every other bit zero, and changes no other *)
(* register; every register access of every driver function is made with   *)
(* IsReady = XIL_COMPONENT_IS_READY; XConv_engine_Initialize that finds no *)
(* configuration leaves IsReady = 0 and returns XST_DEVICE_NOT_FOUND.      *)
C34_StartFrame ==
    [][ /\ (drv'.fn = "Start" /\ drv' /= drv /\ ~drv'.stopped) =>
              LET a == drv.Control_BaseAddress + XCONV_ENGINE_CONTROL_ADDR_AP_CTRL
                  v == drv'.regs[a]
              IN  /\ drv.IsReady = XIL_COMPONENT_IS_READY
                  /\ Len(drv'.log) = 2
                  /\ drv'.log[1] = [op |-> "rd", addr |-> a, val |-> drv.regs[a], ready |-> drv.IsReady]
                  /\ drv'.log[2] = [op |-> "wr", addr |-> a, val |-> v, ready |-> drv.IsReady]
                  /\ Bit(v, 0) = 1 /\ Bit(v, 7) = Bit(drv.regs[a], 7)
                  /\ v = 128 * Bit(drv.regs[a], 7) + 1
                  /\ \A r \in RegAddrs : r /= a => drv'.regs[r] = drv.regs[r]
                  /\ drv'.IsReady = drv.IsReady
                  /\ drv'.Control_BaseAddress = drv.Control_BaseAddress
        /\ \A k \in 1 .. Len(drv'.log) : drv'.log[k].ready = XIL_COMPONENT_IS_READY
        /\ (drv.IsReady /= XIL_COMPONENT_IS_READY /\ drv'.fn \notin {"Initialize", "hw"})
               => (drv'.log = <<>> /\ drv'.regs = drv.regs)
        /\ (drv'.fn = "Initialize" /\ drv' /= drv) =>
              /\ drv'.log = <<>> /\ drv'.regs = drv.regs
              /\ (\A i \in 1 .. Len(drv.table) : drv.table[i] \notin {drv'.Control_BaseAddress})
                     => (drv'.IsReady = 0 /\ drv'.ret = XST_DEVICE_NOT_FOUND)
              /\ drv'.ret = XST_DEVICE_NOT_FOUND => drv'.IsReady = 0
              /\ drv'.ret /= XST_DEVICE_NOT_FOUND =>
                    (drv'.ret = XST_SUCCESS /\ drv'.IsReady = XIL_COMPONENT_IS_READY)
      ]_vars

(* After a start on an initialised instance whose AP_CTRL held status bits *)
(* and auto_restart: AP_CTRL holds 0x81.                                   *)
C34_Witness ==
    /\ drv.fn = "Start" /\ ~drv.stopped /\ Len(drv.log) = 2
    /\ drv.Control_BaseAddress \in DeviceBases
    /\ drv.log[1].val = 142 /\ drv.log[2].val = 129
    /\ drv.regs[drv.Control_BaseAddress + XCONV_ENGINE_CONTROL_ADDR_AP_CTRL] = 129

====
